---------------------------- MODULE Spec2Model ----------------------------
(***************************************************************************)
(* Model of eds-tools (tools-ts): the conversion between the tree form     *)
(* (YAML) and the packed form (EDS) of a single-line electrical diagram.   *)
(*                                                                         *)
(*   convert.ts      normalizeNode, applyDefaults, createKringNameGenerator*)
(*                   buildSitplanJson, compileTree, yamlToEds              *)
(*   eds-to-yaml.ts  stripDefaults, createKringNameGenerator, buildTree,   *)
(*                   buildIdToRef, buildSitplanYaml, edsToYamlData,        *)
(*                   edsToYaml                                             *)
(*   eds-codec.ts    edsToJson, jsonToEds                                  *)
(*                                                                         *)
(* JavaScript values are modelled as follows.  A value of type unknown     *)
(* (an attribute value, a bare node token) is a tagged record: S(x) a      *)
(* string, N(x) a number, B(x) a boolean.  An object is a TLA+ record      *)
(* whose DOMAIN is the set of its keys, so  k in obj  is  k \in DOMAIN obj.*)
(* An array is a sequence.                                                 *)
(***************************************************************************)
EXTENDS Integers, Sequences, FiniteSets, TLC

VARIABLES
    yamlDoc,      \* the parsed input document of yaml2eds: [elements, sitplan]
    edsData,      \* the EdsData the last yamlToEds run wrote (NoEds before)
    prevRun,      \* the EdsData and the label map of the run before the last one
    walkState,    \* what the closures of the last compileTree run were left holding
    rootIndex,    \* the number of roots the running compileTree has walked
    runs,         \* number of compileTree runs of this process so far
    yamlOut,      \* the document the last edsToYamlData built (NoYaml before)
    idToRef,      \* the label map the last edsToYamlData built
    warnings,     \* the console.warn lines so far
    assets,       \* the names of the image files beside the documents
    packedDoc,    \* the EdsData, as a JSON value, that jsonToEds is given
    edsFile,      \* the .eds file: whether it exists, and its content
    decoded,      \* the last call of edsToJson: what it read and returned or threw
    edsData2,     \* the EdsData yaml2eds packed from the document eds2yaml wrote (NoEds before)
    yamlOut2      \* the document eds2yaml built from that second EdsData (NoYaml before)

vars == <<yamlDoc, edsData, prevRun, walkState, rootIndex, runs, yamlOut, idToRef, warnings, assets,
          packedDoc, edsFile, decoded, edsData2, yamlOut2>>

-----------------------------------------------------------------------------
(* JavaScript values *)

S(x) == [t |-> "s", v |-> x]
N(x) == [t |-> "n", v |-> x]
B(x) == [t |-> "b", v |-> x]

\* typeof x === 'string'
IsString(x) == "t" \in DOMAIN x /\ x.t = "s"

\* String(x), `${x}`
String(x) ==
    CASE x.t = "s" -> x.v
      [] x.t = "n" -> ToString(x.v)
      [] x.t = "b" -> IF x.v THEN "true" ELSE "false"

\* the truthiness of x:  if (x) ...
Truthy(x) ==
    CASE x.t = "s" -> x.v # ""
      [] x.t = "n" -> x.v # 0
      [] x.t = "b" -> x.v

\* {}
EmptyObj == [k \in {} |-> S("")]

\* { ...obj, [key]: val }
Put(obj, key, val) == [k \in {key} |-> val] @@ obj

\* obj without the keys ks
Without(obj, ks) == [k \in DOMAIN obj \ ks |-> obj[k]]

\* the value of an expression that evaluates to undefined where a string is expected
Undefined == "undefined"

\* A text that is worked on character by character (a file content, a free
\* text of the document properties) is a sequence of characters, each a
\* string of one character.

\* the white space String.prototype.trim removes, as far as the model has it
WhiteSpace == {" ", "\n"}

\* raw.trim()
RECURSIVE Trim(_)
Trim(raw) ==
    IF raw = <<>> THEN raw
    ELSE IF raw[1] \in WhiteSpace THEN Trim(Tail(raw))
    ELSE IF raw[Len(raw)] \in WhiteSpace THEN Trim(SubSeq(raw, 1, Len(raw) - 1))
    ELSE raw

-----------------------------------------------------------------------------
(* schema.ts: the table of attribute defaults per element type.  The file  *)
(* is not among the sources; the table below is a small instance of the    *)
(* Schema Resource of the specification (section 4.2).                      *)

SCHEMA ==
    [ Kring       |-> [amperage |-> S("16"), type_kabel |-> S("VOB 3G1,5")],
      Contactdoos |-> [aantal |-> S("1"), is_halfwaterdicht |-> B(FALSE)] ]

\* getTypeNames(): the known type names, in table order
TYPE_NAMES == <<"Kring", "Contactdoos">>

\* getDefaults(t): the defaults of a known type, {} for any other
getDefaults(nodeType) ==
    IF nodeType \in DOMAIN SCHEMA THEN SCHEMA[nodeType] ELSE EmptyObj


-----------------------------------------------------------------------------
(* convert.ts: YAML to EDS *)

\* normalizeNode taking the attributes of a type-keyed mapping from its props
\* sub-key alone
normalizeNodePropsOnly(node) ==
    IF IsString(node) THEN [type |-> node.v]
    ELSE IF "type" \in DOMAIN node THEN node
    ELSE LET hits == {i \in DOMAIN TYPE_NAMES : TYPE_NAMES[i] \in DOMAIN node}
         IN  IF hits = {} THEN node
             ELSE LET typeName == TYPE_NAMES[CHOOSE i \in hits : \A j \in hits : i <= j]
                      value    == node[typeName]
                      combinedProps == IF "props" \in DOMAIN value THEN value.props ELSE EmptyObj
                  IN  [type |-> typeName]
                      @@ (IF DOMAIN combinedProps # {} THEN [props |-> combinedProps] ELSE EmptyObj)
                      @@ (IF "children" \in DOMAIN value THEN [children |-> value.children] ELSE EmptyObj)

\* Convert shorthand syntax to standard format.
normalizeNode(node) ==
    IF IsString(node) THEN [type |-> node.v]
    ELSE IF "type" \in DOMAIN node THEN node
    ELSE LET hits == {i \in DOMAIN TYPE_NAMES : TYPE_NAMES[i] \in DOMAIN node}
         IN  IF hits = {} THEN node
             ELSE LET typeName == TYPE_NAMES[CHOOSE i \in hits : \A j \in hits : i <= j]
                      value    == node[typeName]
                      props    == IF "props" \in DOMAIN value THEN value.props ELSE EmptyObj
                      rest     == Without(value, {"children", "props"})
                      combinedProps == rest @@ props
                  IN  [type |-> typeName]
                      @@ (IF DOMAIN combinedProps # {} THEN [props |-> combinedProps] ELSE EmptyObj)
                      @@ (IF "children" \in DOMAIN value THEN [children |-> value.children] ELSE EmptyObj)

\* normalizedNode.type!
TypeOf(normalizedNode) ==
    IF "type" \in DOMAIN normalizedNode THEN normalizedNode.type ELSE Undefined

\* normalizedNode.props || {}
PropsOf(normalizedNode) ==
    IF "props" \in DOMAIN normalizedNode THEN normalizedNode.props ELSE EmptyObj

\* normalizedNode.children || []
ChildrenOf(normalizedNode) ==
    IF "children" \in DOMAIN normalizedNode THEN normalizedNode.children ELSE <<>>

\* applyDefaults with the defaults laid over the provided props
applyDefaultsOverriding(nodeType, props) == getDefaults(nodeType) @@ props

\* Apply defaults for a node type, then overlay with provided props.
applyDefaults(nodeType, props) == props @@ getDefaults(nodeType)

\* String.fromCharCode('A'.charCodeAt(0) + k), k in 0..25
Letters == <<"A", "B", "C", "D", "E", "F", "G", "H", "I", "J", "K", "L", "M",
             "N", "O", "P", "Q", "R", "S", "T", "U", "V", "W", "X", "Y", "Z">>

\* KringNameLoop counting in plain base 26: n = floor(n / 26) without the - 1
RECURSIVE KringNameLoopBase26(_, _)
KringNameLoopBase26(n, name) ==
    LET name1 == Letters[(n % 26) + 1] \o name
        n1    == n \div 26
    IN  IF n1 <= 0 THEN name1 ELSE KringNameLoopBase26(n1, name1)

\* the loop of the generator: while (true) { name = letter(n % 26) + name; n = floor(n / 26) - 1; if (n < 0) break }
RECURSIVE KringNameLoop(_, _)
KringNameLoop(n, name) ==
    LET name1 == Letters[(n % 26) + 1] \o name
        n1    == (n \div 26) - 1
    IN  IF n1 < 0 THEN name1 ELSE KringNameLoop(n1, name1)

\* one call of the closure createKringNameGenerator() returned, its counter being `counter`
getNextKringName(counter) ==
    [name |-> KringNameLoop(counter, ""), counter |-> counter + 1]

\* currentKringName = null
NoKringName == ""

\* walk(node, parent, indent) called without autoNr
NoAutoNr == 0

\* FreshWalkState with a generator that lives on from one run to the next
SharedGeneratorState ==
    [ data             |-> <<>>,
      active           |-> <<>>,
      ids              |-> <<>>,
      nextId           |-> 1,
      refToId          |-> EmptyObj,
      counter          |-> walkState.counter,
      currentKringName |-> NoKringName,
      kringLog         |-> <<>> ]

\* The variables compileTree declares before walking: data, active, ids, nextId,
\* refToId, the generator's counter and currentKringName.  kringLog is a history of
\* the names the generator handed out, with the id of the Kring that got each.
FreshWalkState ==
    [ data             |-> <<>>,
      active           |-> <<>>,
      ids              |-> <<>>,
      nextId           |-> 1,
      refToId          |-> EmptyObj,
      counter          |-> 0,
      currentKringName |-> NoKringName,
      kringLog         |-> <<>> ]

\* WithNr without the automatic number
WithNrNoAuto(props, normalizedNode, autoNr) ==
    IF "nr" \in DOMAIN normalizedNode THEN Put(props, "nr", S(String(normalizedNode.nr)))
    ELSE IF "nr" \notin DOMAIN props THEN Put(props, "nr", S(""))
    ELSE props

\* nr: explicit > auto-assigned > empty
WithNr(props, normalizedNode, autoNr) ==
    IF "nr" \in DOMAIN normalizedNode THEN Put(props, "nr", S(String(normalizedNode.nr)))
    ELSE IF autoNr # NoAutoNr THEN Put(props, "nr", S(ToString(autoNr)))
    ELSE IF "nr" \notin DOMAIN props THEN Put(props, "nr", S(""))
    ELSE props

\* Register ref for sitplan (KringName.nr)
RegisterRef(refToId, currentKringName, props, myId) ==
    IF currentKringName # NoKringName /\ Truthy(props.nr)
    THEN Put(refToId, currentKringName \o "." \o String(props.nr), myId)
    ELSE refToId

RECURSIVE walk(_, _, _, _, _), walkChildren(_, _, _, _, _, _, _)

\* walkChildren with the children walked at the indent of their parent
walkChildrenSameIndent(st, children, i, myId, indent, isKring, childNr) ==
    IF i > Len(children) THEN st
    ELSE LET childNorm == normalizeNode(children[i])
         IN  IF isKring /\ "nr" \notin DOMAIN childNorm
             THEN walkChildren(walk(st, childNorm, myId, indent, childNr),
                               children, i + 1, myId, indent, isKring, childNr + 1)
             ELSE walkChildren(walk(st, childNorm, myId, indent, NoAutoNr),
                               children, i + 1, myId, indent, isKring, childNr)

\* walk(node, parent, indent, autoNr), acting on the variables in st
walk(st, node, parent, indent, autoNr) ==
    LET myId           == st.nextId
        normalizedNode == normalizeNode(node)
        nodeType       == TypeOf(normalizedNode)
        props          == WithNr(Put(applyDefaults(nodeType, PropsOf(normalizedNode)),
                                     "type", S(nodeType)),
                                 normalizedNode, autoNr)
        item           == [id |-> myId, parent |-> parent, indent |-> indent,
                           collapsed |-> FALSE, props |-> props]
        isKring        == nodeType = "Kring"
        next           == IF isKring THEN getNextKringName(st.counter)
                          ELSE [name |-> st.currentKringName, counter |-> st.counter]
        st1            == [ data             |-> Append(st.data, item),
                            active           |-> Append(st.active, TRUE),
                            ids              |-> Append(st.ids, myId),
                            nextId           |-> myId + 1,
                            refToId          |-> RegisterRef(st.refToId, next.name, props, myId),
                            counter          |-> next.counter,
                            currentKringName |-> next.name,
                            kringLog         |-> IF isKring
                                                 THEN Append(st.kringLog, [id |-> myId, name |-> next.name])
                                                 ELSE st.kringLog ]
    IN  walkChildren(st1, ChildrenOf(normalizedNode), 1, myId, indent, isKring, 1)

\* for (const child of normalizedNode.children || []) ..., from the i-th child on
walkChildren(st, children, i, myId, indent, isKring, childNr) ==
    IF i > Len(children) THEN st
    ELSE LET childNorm == normalizeNode(children[i])
         IN  IF isKring /\ "nr" \notin DOMAIN childNorm
             THEN walkChildren(walk(st, childNorm, myId, indent + 1, childNr),
                               children, i + 1, myId, indent, isKring, childNr + 1)
             ELSE walkChildren(walk(st, childNorm, myId, indent + 1, NoAutoNr),
                               children, i + 1, myId, indent, isKring, childNr)

\* for (const root of tree) walk(root)
RECURSIVE walkRoots(_, _, _)
walkRoots(st, tree, i) ==
    IF i > Len(tree) THEN st
    ELSE walkRoots(walk(st, tree[i], 0, 0, NoAutoNr), tree, i + 1)

-----------------------------------------------------------------------------
(* convert.ts: the sitplan.  Positions and sizes are in hundredths of a     *)
(* unit and scales in hundredths, so that 0.25 is 25.  The label position   *)
(* fields of an element (labelposx, labelposy) are left out.                *)

\* obj[key] ?? dflt
OrElse(obj, key, dflt) == IF key \in DOMAIN obj THEN obj[key] ELSE dflt

\* electroItemId: null
Null == -1

\* the longest list of layers of a sitplan
MaxLayers == 2

\* the names extractImageFromSvg gives the image files it writes
WrittenNames(imgFormat) ==
    { "image_" \o ToString(index) \o "." \o imgFormat : index \in 0..MaxLayers }

\* path.extname(imagePath).toLowerCase().slice(1), for the image files of the
\* model: the files beside the input document and the files eds2yaml writes
extname(image) ==
    CASE image \in {"plan.png"} \cup WrittenNames("png") -> "png"
      [] image \in {"foto.jpg"} \cup WrittenNames("jpg") -> "jpg"
      [] image = "logo.gif" -> "gif"
      [] OTHER -> ""

\* mimeTypes[ext] || 'image/png'
mimeType(image) ==
    CASE extname(image) = "png" -> "image/png"
      [] extname(image) = "jpg" -> "image/jpeg"
      [] extname(image) = "gif" -> "image/gif"
      [] OTHER                  -> "image/png"

\* fs.readFileSync(imagePath).toString('base64'): the model has one picture
\* of each format, and a file eds2yaml wrote holds the bytes of the picture
\* it was taken from
imgData(image) ==
    CASE extname(image) = "png" -> "iVBORw0K"
      [] extname(image) = "jpg" -> "/9j/4AAQ"
      [] extname(image) = "gif" -> "R0lGODlh"
      [] OTHER                  -> "AAAA"

\* Load image file and wrap in SVG with base64 encoding.
loadImageAsSvg(image) ==
    "<svg><image data:" \o mimeType(image) \o ";base64," \o imgData(image) \o "/></svg>"

\* ImageElement with the image loaded whether or not the file exists
ImageElementLoaded(layer, fontsize, scale, rotate, files) ==
    LET pos  == OrElse(layer, "pos", <<0, 0>>)
        size == OrElse(layer, "size", <<20000, 20000>>)
    IN  [ page |-> OrElse(layer, "page", 1), posx |-> pos[1], posy |-> pos[2],
          sizex |-> size[1], sizey |-> size[2], labelfontsize |-> fontsize,
          adrestype |-> "null", adreslocation |-> "rechts",
          rotate |-> OrElse(layer, "rotate", rotate), scale |-> OrElse(layer, "scale", scale),
          movable |-> TRUE, color |-> OrElse(layer, "color", "#000000"),
          svg |-> loadImageAsSvg(layer.image),
          electroItemId |-> Null ]

\* the SitplanElement of an image layer
ImageElement(layer, fontsize, scale, rotate, files) ==
    LET pos  == OrElse(layer, "pos", <<0, 0>>)
        size == OrElse(layer, "size", <<20000, 20000>>)
    IN  [ page |-> OrElse(layer, "page", 1), posx |-> pos[1], posy |-> pos[2],
          sizex |-> size[1], sizey |-> size[2], labelfontsize |-> fontsize,
          adrestype |-> "null", adreslocation |-> "rechts",
          rotate |-> OrElse(layer, "rotate", rotate), scale |-> OrElse(layer, "scale", scale),
          movable |-> TRUE, color |-> OrElse(layer, "color", "#000000"),
          svg |-> IF layer.image \in files THEN loadImageAsSvg(layer.image) ELSE "",
          electroItemId |-> Null ]

\* the SitplanElement of an electrical element reference
ElectroElement(layer, electroId, fontsize, scale, rotate) ==
    LET pos == OrElse(layer, "pos", <<0, 0>>)
        sc  == OrElse(layer, "scale", scale)
    IN  [ page |-> OrElse(layer, "page", 1), posx |-> pos[1], posy |-> pos[2],
          sizex |-> ((200 * sc) \div 100 + 1) * 100, sizey |-> ((200 * sc) \div 100) * 100,
          labelfontsize |-> OrElse(layer, "labelfontsize", fontsize),
          adrestype |-> "auto", adreslocation |-> OrElse(layer, "adreslocation", "rechts"),
          rotate |-> OrElse(layer, "rotate", rotate), scale |-> sc,
          movable |-> TRUE, color |-> OrElse(layer, "color", "#000000"),
          svg |-> "", electroItemId |-> electroId ]

\* for (const layer of layerList) ..., from the i-th layer on; the result is
\* [elements, warnings]
RECURSIVE sitplanLayers(_, _, _, _, _, _)
sitplanLayers(layerList, i, refToId, files, dflt, acc) ==
    IF i > Len(layerList) THEN acc
    ELSE LET layer == layerList[i]
             isImage == "image" \in DOMAIN layer /\ layer.image # ""
             hasRef  == "ref" \in DOMAIN layer /\ layer.ref # ""
             acc1 ==
                 IF isImage
                 THEN [ elements |-> Append(acc.elements,
                                            ImageElement(layer, dflt.fontsize, dflt.scale, dflt.rotate, files)),
                        warnings |-> IF layer.image \in files THEN acc.warnings
                                     ELSE Append(acc.warnings,
                                                 "Warning: Image file '" \o layer.image \o "' not found") ]
                 ELSE IF hasRef
                 THEN IF layer.ref \in DOMAIN refToId
                      THEN [ elements |-> Append(acc.elements,
                                                 ElectroElement(layer, refToId[layer.ref],
                                                                dflt.fontsize, dflt.scale, dflt.rotate)),
                             warnings |-> acc.warnings ]
                      ELSE [ elements |-> acc.elements,
                             warnings |-> Append(acc.warnings,
                                                 "Warning: sitplan ref '" \o layer.ref \o "' not found in schema") ]
                 ELSE IF "id" \in DOMAIN layer
                 THEN [ elements |-> Append(acc.elements,
                                            ElectroElement(layer, layer.id,
                                                           dflt.fontsize, dflt.scale, dflt.rotate)),
                        warnings |-> acc.warnings ]
                 ELSE acc
         IN  sitplanLayers(layerList, i + 1, refToId, files, dflt, acc1)

\* buildSitplanJson looking the labels up in an empty label map
buildSitplanJsonUnresolved(doc, refToId, files) ==
    IF "sitplan" \notin DOMAIN doc
    THEN [ json |-> [ numPages |-> 1, activePage |-> 1,
                      defaults |-> [fontsize |-> 11, scale |-> 70, rotate |-> 0],
                      elements |-> <<>> ],
           warnings |-> <<>> ]
    ELSE LET sitplan   == doc.sitplan
             dflt      == [fontsize |-> 10, scale |-> 25, rotate |-> 0]
             layerList == OrElse(sitplan, "layers", <<>>)
             r         == sitplanLayers(layerList, 1, EmptyObj, files, dflt,
                                        [elements |-> <<>>, warnings |-> <<>>])
         IN  [ json |-> [ numPages |-> 1, activePage |-> 1, defaults |-> dflt,
                          elements |-> r.elements ],
               warnings |-> r.warnings ]

\* Build sitplanjson from YAML sitplan section; doc is the YAML document, whose
\* sitplan key is optional.  The result is [json, warnings].
buildSitplanJson(doc, refToId, files) ==
    IF "sitplan" \notin DOMAIN doc
    THEN [ json |-> [ numPages |-> 1, activePage |-> 1,
                      defaults |-> [fontsize |-> 11, scale |-> 70, rotate |-> 0],
                      elements |-> <<>> ],
           warnings |-> <<>> ]
    ELSE LET sitplan   == doc.sitplan
             defaults  == OrElse(sitplan, "defaults", EmptyObj)
             dflt      == [ fontsize |-> OrElse(defaults, "fontsize", 10),
                            scale    |-> OrElse(defaults, "scale", 25),
                            rotate   |-> OrElse(defaults, "rotate", 0) ]
             layerList == OrElse(sitplan, "layers", OrElse(sitplan, "elements", <<>>))
             r         == sitplanLayers(layerList, 1, refToId, files, dflt,
                                        [elements |-> <<>>, warnings |-> <<>>])
         IN  [ json |-> [ numPages |-> OrElse(sitplan, "numPages", 1),
                          activePage |-> OrElse(sitplan, "activePage", 1),
                          defaults |-> dflt,
                          elements |-> r.elements ],
               warnings |-> r.warnings ]

\* '2 x 230V ~50 Hz'
DefaultInfo == <<"2", " ", "x", " ", "2", "3", "0", "V", " ", "~", "5", "0", " ", "H", "z">>

\* '<br>'
BreakMarker == <<"<", "b", "r", ">">>

\* text.replace(/\n/g, '<br>')
RECURSIVE replaceNewlines(_)
replaceNewlines(text) ==
    IF text = <<>> THEN <<>>
    ELSE (IF text[1] = "\n" THEN BreakMarker ELSE <<text[1]>>) \o replaceNewlines(Tail(text))

\* properties?.key || dflt, properties being the optional properties of doc
PropertyOr(doc, key, dflt) ==
    IF "properties" \in DOMAIN doc /\ key \in DOMAIN doc.properties /\ doc.properties[key] # <<>>
    THEN doc.properties[key]
    ELSE dflt

\* the properties of the EdsData compileTree returns
PropertiesOf(doc) ==
    [ filename  |-> <<>>,
      owner     |-> replaceNewlines(Trim(PropertyOr(doc, "owner", <<>>))),
      installer |-> replaceNewlines(Trim(PropertyOr(doc, "installer", <<>>))),
      control   |-> replaceNewlines(Trim(PropertyOr(doc, "control", <<>>))),
      info      |-> replaceNewlines(Trim(PropertyOr(doc, "info", DefaultInfo))),
      legacySchakelaars |-> FALSE ]

\* EdsDataOf with curid the number of elements rather than the next id
EdsDataOfCounting(st, doc, sitplanjson) ==
    [ length      |-> Len(st.data),
      data        |-> st.data,
      active      |-> st.active,
      id          |-> st.ids,
      properties  |-> PropertiesOf(doc),
      curid       |-> Len(st.data),
      sitplanjson |-> sitplanjson ]

\* Compile YAML tree to EDS data structure; st is the state the walk ended in.
EdsDataOf(st, doc, sitplanjson) ==
    [ length      |-> Len(st.data),
      data        |-> st.data,
      active      |-> st.active,
      id          |-> st.ids,
      properties  |-> PropertiesOf(doc),
      curid       |-> st.nextId,
      sitplanjson |-> sitplanjson ]

-----------------------------------------------------------------------------
(* eds-to-yaml.ts: EDS to YAML *)

\* the keys stripDefaults keeps: not type or nr, not the naam of a Kring, not an
\* "auto" autonr or autoKringNaam, not a value whose text is the default's text
KeptKeys(nodeType, props) ==
    LET defaults == getDefaults(nodeType)
    IN  { key \in DOMAIN props :
            /\ key \notin {"type", "nr"}
            /\ ~(key = "naam" /\ nodeType = "Kring")
            /\ ~(key \in {"autonr", "autoKringNaam"} /\ props[key] = S("auto"))
            /\ ~(key \in DOMAIN defaults /\ String(props[key]) = String(defaults[key])) }

\* stripDefaults comparing a value with the default as values, not as texts
stripDefaultsTyped(nodeType, props) ==
    LET defaults == getDefaults(nodeType)
    IN  [key \in { k \in KeptKeys(nodeType, props) \cup DOMAIN props :
                      /\ k \notin {"type", "nr"}
                      /\ ~(k = "naam" /\ nodeType = "Kring")
                      /\ ~(k \in {"autonr", "autoKringNaam"} /\ props[k] = S("auto"))
                      /\ ~(k \in DOMAIN defaults /\ props[k] = defaults[k]) } |-> props[key]]

\* stripDefaults without the comparison with the defaults
stripDefaultsKeepingDefaults(nodeType, props) ==
    Without(props, {"type", "nr"})

\* Remove properties that match defaults, keeping only non-default values.
stripDefaults(nodeType, props) ==
    [key \in KeptKeys(nodeType, props) |-> props[key]]

\* the generator of eds-to-yaml.ts (a second copy of the one of convert.ts)
RECURSIVE KringNameLoopY(_, _)
KringNameLoopY(n, name) ==
    LET name1 == Letters[(n % 26) + 1] \o name
        n1    == (n \div 26) - 1
    IN  IF n1 < 0 THEN name1 ELSE KringNameLoopY(n1, name1)

getNextKringNameY(counter) ==
    [name |-> KringNameLoopY(counter, ""), counter |-> counter + 1]

\* props.type as string
TypeOfProps(props) ==
    IF "type" \in DOMAIN props THEN String(props.type) ELSE Undefined

\* the positions of the sequence idx (a set of positions), in increasing order
RECURSIVE InOrder(_)
InOrder(idx) ==
    IF idx = {} THEN <<>>
    ELSE LET m == CHOOSE i \in idx : \A j \in idx : j <= i
         IN  Append(InOrder(idx \ {m}), m)

\* the positions idx of data, in the increasing order of the ids of the items there
RECURSIVE InIdOrder(_, _)
InIdOrder(data, idx) ==
    IF idx = {} THEN <<>>
    ELSE LET m == CHOOSE i \in idx : \A j \in idx : data[j].id <= data[i].id
         IN  Append(InIdOrder(data, idx \ {m}), m)

\* childrenMap with the children sorted by id
childrenMapById(data, parent) ==
    LET idx == InIdOrder(data, {i \in DOMAIN data : data[i].parent = parent})
    IN  [k \in DOMAIN idx |-> data[idx[k]]]

\* childrenMap keeping only the first item of every parent
childrenMapFirst(data, parent) ==
    LET idx == InOrder({i \in DOMAIN data : data[i].parent = parent})
    IN  [k \in DOMAIN idx \cap {1} |-> data[idx[k]]]

\* childrenMap.get(parent) || []: the items with that parent, sorted by
\* their position in data
childrenMap(data, parent) ==
    LET idx == InOrder({i \in DOMAIN data : data[i].parent = parent})
    IN  [k \in DOMAIN idx |-> data[idx[k]]]

\* buildNode(item) called without childNr
NoChildNr == 0

\* the comment of a node, from what currentKringName holds once the children are built
CommentOf(nodeType, currentKringName, kringName, childNr) ==
    IF nodeType = "Kring" /\ currentKringName # NoKringName
    THEN "#" \o currentKringName
    ELSE IF kringName # NoKringName /\ childNr # NoChildNr
    THEN "#" \o kringName \o "." \o ToString(childNr)
    ELSE ""

\* the YAML node of an element: the type-keyed mapping when there is a comment,
\* a non-default property or a child, the bare type name otherwise
YamlNodeOf(nodeType, comment, nonDefaultProps, children) ==
    LET result == (IF Len(children) > 0 THEN [children |-> children] ELSE EmptyObj)
                  @@ nonDefaultProps
                  @@ (IF comment # "" THEN [k \in {"_comment"} |-> S(comment)] ELSE EmptyObj)
    IN  IF DOMAIN result # {} THEN [k \in {nodeType} |-> result] ELSE S(nodeType)

RECURSIVE buildNode(_, _, _, _, _), buildChildren(_, _, _, _, _, _, _, _)

\* buildNode(item, childNr, kringName), acting on the generator's counter and
\* currentKringName in bs; the result is [node, bs]
buildNode(data, bs, item, childNr, kringName) ==
    LET props    == item.props
        nodeType == TypeOfProps(props)
        isKring  == nodeType = "Kring"
        next     == IF isKring THEN getNextKringNameY(bs.counter)
                    ELSE [name |-> bs.currentKringName, counter |-> bs.counter]
        bs1      == [counter |-> next.counter, currentKringName |-> next.name]
        nonDefaultProps == stripDefaults(nodeType, props)
        kids     == buildChildren(data, bs1, childrenMap(data, item.id), 1, isKring, 1, kringName, <<>>)
        comment  == CommentOf(nodeType, kids.bs.currentKringName, kringName, childNr)
    IN  [node |-> YamlNodeOf(nodeType, comment, nonDefaultProps, kids.nodes), bs |-> kids.bs]

\* for (const child of childrenMap.get(item.id) || []) ..., from the i-th child on
buildChildren(data, bs, items, i, isKring, childCounter, kringName, acc) ==
    IF i > Len(items) THEN [nodes |-> acc, bs |-> bs]
    ELSE LET r == IF isKring
                  THEN buildNode(data, bs, items[i], childCounter, bs.currentKringName)
                  ELSE buildNode(data, bs, items[i], NoChildNr, kringName)
         IN  buildChildren(data, r.bs, items, i + 1, isKring,
                           IF isKring THEN childCounter + 1 ELSE childCounter,
                           kringName, Append(acc, r.node))

\* Build tree structure from flat EDS data.
buildTree(data) ==
    buildChildren(data, [counter |-> 0, currentKringName |-> NoKringName],
                  childrenMap(data, 0), 1, FALSE, 1, NoKringName, <<>>).nodes

\* Build mapping from element id to ref string (KringName.nr).
RECURSIVE buildIdToRefFrom(_, _, _, _, _)
buildIdToRefFrom(data, i, counter, currentKringName, map) ==
    IF i > Len(data) THEN map
    ELSE LET props == data[i].props
             next  == IF TypeOfProps(props) = "Kring" THEN getNextKringNameY(counter)
                      ELSE [name |-> currentKringName, counter |-> counter]
             map1  == IF next.name # NoKringName /\ "nr" \in DOMAIN props /\ Truthy(props.nr)
                      THEN (data[i].id :> (next.name \o "." \o String(props.nr))) @@ map
                      ELSE map
         IN  buildIdToRefFrom(data, i + 1, next.counter, next.name, map1)

buildIdToRef(data) == buildIdToRefFrom(data, 1, 0, NoKringName, <<>>)

-----------------------------------------------------------------------------
(* eds-to-yaml.ts: the sitplan *)

\* Math.round(x * 10) / 10, x in hundredths
Round1(x) == ((x + 5) \div 10) * 10

\* the format the regular expression of extractImageFromSvg finds in the svg
\* text, jpeg read as jpg; "" when it finds no embedded png or jpeg image
EmbeddedFormat(svg) ==
    IF \E image \in {"plan.png"} : svg = loadImageAsSvg(image) THEN "png"
    ELSE IF \E image \in {"foto.jpg"} : svg = loadImageAsSvg(image) THEN "jpg"
    ELSE ""

HasEmbeddedImage(svg) == EmbeddedFormat(svg) # ""

\* the file name extractImageFromSvg writes the image of the index-th image layer to
ImageFileName(svg, index) == "image_" \o ToString(index) \o "." \o EmbeddedFormat(svg)

\* the YAML layer of an embedded image element
ImageLayer(elem, imageIndex, dflt) ==
    [pos |-> <<Round1(elem.posx), Round1(elem.posy)>>, size |-> <<elem.sizex, elem.sizey>>]
    @@ (IF HasEmbeddedImage(elem.svg) THEN [image |-> ImageFileName(elem.svg, imageIndex)] ELSE EmptyObj)
    @@ (IF elem.scale # dflt.scale THEN [scale |-> elem.scale] ELSE EmptyObj)
    @@ (IF elem.rotate # dflt.rotate THEN [rotate |-> elem.rotate] ELSE EmptyObj)
    @@ (IF elem.page # 1 THEN [page |-> elem.page] ELSE EmptyObj)

\* ElectroLayer with the id written whether or not there is a label
ElectroLayerWithId(elem, map, dflt) ==
    [pos |-> <<Round1(elem.posx), Round1(elem.posy)>>, id |-> elem.electroItemId]
    @@ (IF elem.electroItemId \in DOMAIN map /\ map[elem.electroItemId] # ""
        THEN [ref |-> map[elem.electroItemId]]
        ELSE EmptyObj)

\* the YAML layer of an electrical element reference: the ref when the label
\* map has one for the id, the id otherwise
ElectroLayer(elem, map, dflt) ==
    [pos |-> <<Round1(elem.posx), Round1(elem.posy)>>]
    @@ (IF elem.electroItemId \in DOMAIN map /\ map[elem.electroItemId] # ""
        THEN [ref |-> map[elem.electroItemId]]
        ELSE [id |-> elem.electroItemId])
    @@ (IF elem.page # 1 THEN [page |-> elem.page] ELSE EmptyObj)
    @@ (IF elem.scale # dflt.scale THEN [scale |-> elem.scale] ELSE EmptyObj)
    @@ (IF elem.rotate # dflt.rotate THEN [rotate |-> elem.rotate] ELSE EmptyObj)
    @@ (IF elem.color \notin {"", "#000000", "black"} THEN [color |-> elem.color] ELSE EmptyObj)

\* yamlLayers with a layer for every entry without an element, an empty svg or not
RECURSIVE yamlLayersKeepingEmpty(_, _, _, _, _)
yamlLayersKeepingEmpty(elements, i, map, dflt, acc) ==
    IF i > Len(elements) THEN acc
    ELSE LET elem == elements[i]
             acc1 ==
                 IF elem.electroItemId = Null
                 THEN [ layers     |-> Append(acc.layers, ImageLayer(elem, acc.imageIndex, dflt)),
                        imageIndex |-> IF HasEmbeddedImage(elem.svg)
                                       THEN acc.imageIndex + 1 ELSE acc.imageIndex,
                        written    |-> IF HasEmbeddedImage(elem.svg)
                                       THEN acc.written \cup {ImageFileName(elem.svg, acc.imageIndex)}
                                       ELSE acc.written ]
                 ELSE [ layers     |-> Append(acc.layers, ElectroLayer(elem, map, dflt)),
                        imageIndex |-> acc.imageIndex,
                        written    |-> acc.written ]
         IN  yamlLayersKeepingEmpty(elements, i + 1, map, dflt, acc1)

\* for (const elem of sitplanjson.elements) ..., from the i-th element on; the
\* result is [layers, imageIndex, written]
RECURSIVE yamlLayers(_, _, _, _, _)
yamlLayers(elements, i, map, dflt, acc) ==
    IF i > Len(elements) THEN acc
    ELSE LET elem == elements[i]
             acc1 ==
                 IF elem.electroItemId = Null /\ elem.svg # ""
                 THEN [ layers     |-> Append(acc.layers, ImageLayer(elem, acc.imageIndex, dflt)),
                        imageIndex |-> IF HasEmbeddedImage(elem.svg)
                                       THEN acc.imageIndex + 1 ELSE acc.imageIndex,
                        written    |-> IF HasEmbeddedImage(elem.svg)
                                       THEN acc.written \cup {ImageFileName(elem.svg, acc.imageIndex)}
                                       ELSE acc.written ]
                 ELSE IF elem.electroItemId # Null
                 THEN [ layers     |-> Append(acc.layers, ElectroLayer(elem, map, dflt)),
                        imageIndex |-> acc.imageIndex,
                        written    |-> acc.written ]
                 ELSE acc
         IN  yamlLayers(elements, i + 1, map, dflt, acc1)

\* Convert sitplanjson to YAML sitplan format, with an output directory; the
\* result is [sitplan, written]: the document's sitplan key, absent when the
\* function returns null, and the image files it wrote.
buildSitplanYaml(sitplanjson, map) ==
    LET dflt == sitplanjson.defaults
        r    == yamlLayers(sitplanjson.elements, 1, map, dflt,
                           [layers |-> <<>>, imageIndex |-> 0, written |-> {}])
    IN  [ sitplan |-> IF Len(r.layers) = 0 THEN EmptyObj
                      ELSE [sitplan |-> [defaults |-> dflt, layers |-> r.layers]],
          written |-> r.written ]

\* replaceBreaks leaving the text as it is
replaceBreaksNot(text) == text

\* text.replace(/<br>/g, '\n')
RECURSIVE replaceBreaks(_)
replaceBreaks(text) ==
    IF text = <<>> THEN <<>>
    ELSE IF Len(text) >= 4 /\ SubSeq(text, 1, 4) = BreakMarker
    THEN <<"\n">> \o replaceBreaks(SubSeq(text, 5, Len(text)))
    ELSE <<text[1]>> \o replaceBreaks(Tail(text))

\* the properties of the document: owner, installer and control when they are
\* not empty, info when it is neither empty nor the default
YamlProperties(edsJson) ==
    LET props == IF "properties" \in DOMAIN edsJson THEN edsJson.properties ELSE EmptyObj
        kept  == { key \in DOMAIN props \cap {"owner", "installer", "control", "info"} :
                     /\ props[key] # <<>>
                     /\ ~(key = "info" /\ props[key] = DefaultInfo) }
    IN  [key \in kept |-> replaceBreaks(props[key])]

\* Convert EDS file to YAML data structure: the document built from the
\* decoded EdsData, and the image files written on the way.
edsToYamlData(edsJson) ==
    LET tree == buildTree(edsJson.data)
        properties == YamlProperties(edsJson)
        map  == buildIdToRef(edsJson.data)
        sp   == buildSitplanYaml(edsJson.sitplanjson, map)
    IN  [ doc |-> [elements |-> tree]
                  @@ (IF DOMAIN properties # {} THEN [properties |-> properties] ELSE EmptyObj)
                  @@ sp.sitplan,
          idToRef |-> map, written |-> sp.written ]

-----------------------------------------------------------------------------
(* eds-codec.ts: the envelope of an .eds file.  A text (a file content, a  *)
(* JSON text, a base64 text) is a sequence of characters, each a string of *)
(* one character; a Buffer or Uint8Array is a sequence of numbers 0..255.  *)

EDS_HEADER == <<"E", "D", "S", "0", "0", "4", "0", "0", "0", "0">>
TXT_HEADER == <<"T", "X", "T", "0", "0", "4", "0", "0", "0", "0">>

\* the characters of code 32 to 126, in the order of their codes (the grave
\* accent, code 96, is not a character of the model)
Ascii ==
    << " ", "!", "\"", "#", "$", "%", "&", "'", "(", ")", "*", "+",
       ",", "-", ".", "/", "0", "1", "2", "3", "4", "5", "6", "7",
       "8", "9", ":", ";", "<", "=", ">", "?", "@", "A", "B", "C",
       "D", "E", "F", "G", "H", "I", "J", "K", "L", "M", "N", "O",
       "P", "Q", "R", "S", "T", "U", "V", "W", "X", "Y", "Z", "[",
       "\\", "]", "^", "_", "<96>", "a", "b", "c", "d", "e", "f", "g",
       "h", "i", "j", "k", "l", "m", "n", "o", "p", "q", "r", "s",
       "t", "u", "v", "w", "x", "y", "z", "{", "|", "}", "~" >>

\* the code of every character of the model, the line feed included
CodeOf ==
    [c \in {Ascii[i] : i \in DOMAIN Ascii} |-> 31 + (CHOOSE i \in DOMAIN Ascii : Ascii[i] = c)]
    @@ [c \in {"\n"} |-> 10]

\* the UTF-8 code of a character
CharCode(c) == CodeOf[c]

\* the character of a code; "?" stands for any character the model does not have
CodeChar(b) ==
    IF b = 10 THEN "\n" ELSE IF b >= 32 /\ b <= 126 THEN Ascii[b - 31] ELSE "?"

\* raw.startsWith(header)
StartsWith(raw, header) ==
    Len(raw) >= Len(header) /\ SubSeq(raw, 1, Len(header)) = header

\* raw.slice(n)
Slice(raw, n) == SubSeq(raw, n + 1, Len(raw))


\* the alphabet of base64
Base64Alphabet ==
    << "A", "B", "C", "D", "E", "F", "G", "H", "I", "J", "K", "L", "M", "N", "O", "P",
       "Q", "R", "S", "T", "U", "V", "W", "X", "Y", "Z", "a", "b", "c", "d", "e", "f",
       "g", "h", "i", "j", "k", "l", "m", "n", "o", "p", "q", "r", "s", "t", "u", "v",
       "w", "x", "y", "z", "0", "1", "2", "3", "4", "5", "6", "7", "8", "9", "+", "/" >>

\* the k-th character of buffer.toString('base64'): the characters come in
\* groups of four for three bytes, "=" where the last group has no byte left
Base64Char(bytes, k) ==
    LET i    == 3 * ((k - 1) \div 4) + 1
        has2 == i + 1 <= Len(bytes)
        has3 == i + 2 <= Len(bytes)
        n    == bytes[i] * 65536
                + (IF has2 THEN bytes[i + 1] * 256 ELSE 0)
                + (IF has3 THEN bytes[i + 2] ELSE 0)
    IN  CASE (k - 1) % 4 = 0 -> Base64Alphabet[(n \div 262144) + 1]
          [] (k - 1) % 4 = 1 -> Base64Alphabet[((n \div 4096) % 64) + 1]
          [] (k - 1) % 4 = 2 -> IF has2 THEN Base64Alphabet[((n \div 64) % 64) + 1] ELSE "="
          [] (k - 1) % 4 = 3 -> IF has3 THEN Base64Alphabet[(n % 64) + 1] ELSE "="

\* buffer.toString('base64')
toBase64(bytes) ==
    [k \in 1..(4 * ((Len(bytes) + 2) \div 3)) |-> Base64Char(bytes, k)]

\* the 6-bit value of every character of the alphabet
SextetOf ==
    [c \in {Base64Alphabet[k] : k \in DOMAIN Base64Alphabet} |->
        (CHOOSE k \in DOMAIN Base64Alphabet : Base64Alphabet[k] = c) - 1]

\* the 6-bit values of the characters of a base64 text up to its first "=",
\* characters outside the alphabet skipped
Sextets(text) ==
    LET stops  == {i \in DOMAIN text : text[i] = "="}
        upto   == IF stops = {} THEN Len(text)
                  ELSE (CHOOSE i \in stops : \A j \in stops : i <= j) - 1
        digits == SelectSeq(SubSeq(text, 1, upto), LAMBDA c : c \in DOMAIN SextetOf)
    IN  [i \in DOMAIN digits |-> SextetOf[digits[i]]]

\* the k-th byte of a sequence of 6-bit values: four values give three bytes
ByteOfSextets(six, k) ==
    LET i == 4 * ((k - 1) \div 3) + 1
    IN  CASE (k - 1) % 3 = 0 -> six[i] * 4 + (six[i + 1] \div 16)
          [] (k - 1) % 3 = 1 -> (six[i + 1] % 16) * 16 + (six[i + 2] \div 4)
          [] (k - 1) % 3 = 2 -> (six[i + 2] % 4) * 64 + six[i + 3]

\* Buffer.from(text, 'base64')
fromBase64(text) ==
    LET six == Sextets(text)
    IN  [k \in 1..((Len(six) * 6) \div 8) |-> ByteOfSextets(six, k)]

\* the sum of f[i] * (w - i) for i in lo..hi
RECURSIVE WeightedSum(_, _, _, _)
WeightedSum(f, lo, hi, w) ==
    IF lo > hi THEN 0
    ELSE IF lo = hi THEN f[lo] * (w - lo)
    ELSE LET mid == (lo + hi) \div 2
         IN  WeightedSum(f, lo, mid, w) + WeightedSum(f, mid + 1, hi, w)

\* the four bytes of the Adler-32 checksum that ends a zlib stream: a is 1
\* plus the sum of the bytes, b the sum of the values a takes byte after byte,
\* both modulo 65521
Adler32(bytes) ==
    LET n == Len(bytes)
        a == (1 + WeightedSum(bytes, 1, n, n + 1) - WeightedSum(bytes, 1, n, n)) % 65521
        b == (n + WeightedSum(bytes, 1, n, n + 1)) % 65521
    IN  << b \div 256, b % 256, a \div 256, a % 256 >>

\* pako.deflate(payload): a zlib stream of the UTF-8 bytes of the text.  The
\* stream is written with one stored block, one of the encodings the DEFLATE
\* format has for a byte sequence: the two header bytes, the block header
\* with the length and its complement, the bytes, the checksum.
deflate(payload) ==
    LET bytes == [i \in DOMAIN payload |-> CharCode(payload[i])]
        len   == Len(bytes)
    IN  << 120, 1, 1, len % 256, len \div 256, 255 - (len % 256), 255 - (len \div 256) >>
        \o bytes \o Adler32(bytes)

\* pako.inflate(compressed, { to: 'string' }): [ok, text]; ok is FALSE where
\* pako throws, the bytes not being a zlib stream
inflate(compressed) ==
    IF Len(compressed) < 11 THEN [ok |-> FALSE, text |-> <<>>]
    ELSE LET len   == compressed[4] + 256 * compressed[5]
             bytes == SubSeq(compressed, 8, 7 + len)
         IN  IF /\ compressed[1] = 120
                /\ (compressed[1] * 256 + compressed[2]) % 31 = 0
                /\ compressed[3] = 1
                /\ compressed[6] = 255 - compressed[4]
                /\ compressed[7] = 255 - compressed[5]
                /\ Len(compressed) = len + 11
                /\ SubSeq(compressed, len + 8, len + 11) = Adler32(bytes)
             THEN [ok |-> TRUE, text |-> [i \in DOMAIN bytes |-> CodeChar(bytes[i])]]
             ELSE [ok |-> FALSE, text |-> <<>>]

\* JSON values: a number (a natural number in the model), a string (a text
\* without quotes and backslashes), true and false, null, an array, an object
\* (its keys in order, and the values of the keys)
JNum(n) == [j |-> "number", v |-> n]
JStr(text) == [j |-> "string", v |-> text]
JBool(b) == [j |-> "boolean", v |-> b]
JNull == [j |-> "null"]
JArr(items) == [j |-> "array", v |-> items]
JObj(keys, vals) == [j |-> "object", keys |-> keys, v |-> vals]

\* the decimal digits
Digits == <<"0", "1", "2", "3", "4", "5", "6", "7", "8", "9">>

\* String(n) for a natural number, as a text
RECURSIVE NumberText(_)
NumberText(n) ==
    IF n < 10 THEN <<Digits[n + 1]>> ELSE Append(NumberText(n \div 10), Digits[(n % 10) + 1])

\* JSON.stringify(value), without indentation
RECURSIVE JSONstringify(_), StringifyItems(_, _), StringifyMembers(_, _)
JSONstringify(value) ==
    CASE value.j = "number"  -> NumberText(value.v)
      [] value.j = "string"  -> <<"\"">> \o value.v \o <<"\"">>
      [] value.j = "boolean" -> IF value.v THEN <<"t", "r", "u", "e">> ELSE <<"f", "a", "l", "s", "e">>
      [] value.j = "null"    -> <<"n", "u", "l", "l">>
      [] value.j = "array"   -> <<"[">> \o StringifyItems(value.v, 1) \o <<"]">>
      [] value.j = "object"  -> <<"{">> \o StringifyMembers(value, 1) \o <<"}">>

StringifyItems(items, i) ==
    IF i > Len(items) THEN <<>>
    ELSE (IF i > 1 THEN <<",">> ELSE <<>>) \o JSONstringify(items[i]) \o StringifyItems(items, i + 1)

StringifyMembers(obj, i) ==
    IF i > Len(obj.keys) THEN <<>>
    ELSE (IF i > 1 THEN <<",">> ELSE <<>>)
         \o <<"\"">> \o obj.keys[i] \o <<"\"", ":">> \o JSONstringify(obj.v[i])
         \o StringifyMembers(obj, i + 1)

\* the result of a parsing step that fails
ParseError == [ok |-> FALSE]

\* text has the word at position pos
HasWord(text, pos, word) ==
    pos + Len(word) - 1 <= Len(text) /\ SubSeq(text, pos, pos + Len(word) - 1) = word

\* the digits of text from position pos on: [n, pos], n the number read so far
RECURSIVE ParseDigits(_, _, _)
ParseDigits(text, pos, n) ==
    IF pos <= Len(text) /\ \E d \in DOMAIN Digits : Digits[d] = text[pos]
    THEN ParseDigits(text, pos + 1, 10 * n + (CHOOSE d \in DOMAIN Digits : Digits[d] = text[pos]) - 1)
    ELSE [n |-> n, pos |-> pos]

\* the position of the first quote of text at or after pos, 0 if there is none
RECURSIVE NextQuote(_, _)
NextQuote(text, pos) ==
    IF pos > Len(text) THEN 0
    ELSE IF text[pos] = "\"" THEN pos ELSE NextQuote(text, pos + 1)

\* the JSON value that starts at position pos of text: [ok, value, pos], pos the
\* position after the value
RECURSIVE ParseValue(_, _), ParseItems(_, _, _), ParseMembers(_, _, _, _)
ParseValue(text, pos) ==
    IF pos > Len(text) THEN ParseError
    ELSE LET c == text[pos]
         IN  CASE c = "{" ->
                    IF pos < Len(text) /\ text[pos + 1] = "}"
                    THEN [ok |-> TRUE, value |-> JObj(<<>>, <<>>), pos |-> pos + 2]
                    ELSE ParseMembers(text, pos + 1, <<>>, <<>>)
               [] c = "[" ->
                    IF pos < Len(text) /\ text[pos + 1] = "]"
                    THEN [ok |-> TRUE, value |-> JArr(<<>>), pos |-> pos + 2]
                    ELSE ParseItems(text, pos + 1, <<>>)
               [] c = "\"" ->
                    LET q == NextQuote(text, pos + 1)
                    IN  IF q = 0 THEN ParseError
                        ELSE [ok |-> TRUE, value |-> JStr(SubSeq(text, pos + 1, q - 1)), pos |-> q + 1]
               [] \E d \in DOMAIN Digits : Digits[d] = c ->
                    LET r == ParseDigits(text, pos, 0)
                    IN  [ok |-> TRUE, value |-> JNum(r.n), pos |-> r.pos]
               [] HasWord(text, pos, <<"t", "r", "u", "e">>) ->
                    [ok |-> TRUE, value |-> JBool(TRUE), pos |-> pos + 4]
               [] HasWord(text, pos, <<"f", "a", "l", "s", "e">>) ->
                    [ok |-> TRUE, value |-> JBool(FALSE), pos |-> pos + 5]
               [] HasWord(text, pos, <<"n", "u", "l", "l">>) ->
                    [ok |-> TRUE, value |-> JNull, pos |-> pos + 4]
               [] OTHER -> ParseError

\* the items of an array from position pos on, up to and with the closing bracket
ParseItems(text, pos, items) ==
    LET r == ParseValue(text, pos)
    IN  IF ~r.ok \/ r.pos > Len(text) THEN ParseError
        ELSE IF text[r.pos] = "," THEN ParseItems(text, r.pos + 1, Append(items, r.value))
        ELSE IF text[r.pos] = "]"
        THEN [ok |-> TRUE, value |-> JArr(Append(items, r.value)), pos |-> r.pos + 1]
        ELSE ParseError

\* the members of an object from position pos on, up to and with the closing brace
ParseMembers(text, pos, keys, vals) ==
    IF pos > Len(text) \/ text[pos] # "\"" THEN ParseError
    ELSE LET q == NextQuote(text, pos + 1)
         IN  IF q = 0 \/ q >= Len(text) \/ text[q + 1] # ":" THEN ParseError
             ELSE LET key == SubSeq(text, pos + 1, q - 1)
                      r   == ParseValue(text, q + 2)
                  IN  IF ~r.ok \/ r.pos > Len(text) THEN ParseError
                      ELSE IF text[r.pos] = ","
                      THEN ParseMembers(text, r.pos + 1, Append(keys, key), Append(vals, r.value))
                      ELSE IF text[r.pos] = "}"
                      THEN [ok |-> TRUE, value |-> JObj(Append(keys, key), Append(vals, r.value)),
                            pos |-> r.pos + 1]
                      ELSE ParseError

\* JSON.parse(text): [ok, value]; ok is FALSE where JSON.parse throws
JSONparse(text) ==
    LET r == ParseValue(text, 1)
    IN  IF r.ok /\ r.pos = Len(text) + 1 THEN [ok |-> TRUE, value |-> r.value]
        ELSE ParseError

\* the result of edsToJson where it throws
Thrown(message) == [ok |-> FALSE, error |-> message]

\* edsToJson without the throw: what has neither header is read as plain JSON
edsToJsonAnyHeader(content) ==
    LET raw == Trim(content)
    IN  IF StartsWith(raw, EDS_HEADER)
        THEN LET b64        == Slice(raw, Len(EDS_HEADER))
                 paddedB64  == b64 \o [i \in 1..((4 - (Len(b64) % 4)) % 4) |-> "="]
                 decompressed == inflate(fromBase64(paddedB64))
             IN  IF ~decompressed.ok THEN Thrown("incorrect header check")
                 ELSE LET parsed == JSONparse(decompressed.text)
                      IN  IF parsed.ok THEN [ok |-> TRUE, doc |-> parsed.value]
                          ELSE Thrown("Unexpected token in JSON")
        ELSE LET parsed == JSONparse(Slice(raw, Len(TXT_HEADER)))
             IN  IF parsed.ok THEN [ok |-> TRUE, doc |-> parsed.value]
                 ELSE Thrown("Unexpected token in JSON")

\* Read and decode an EDS file to JSON; content is what readFileSync returns.
\* The result is [ok, doc], or [ok, error] where the function throws.
edsToJson(content) ==
    LET raw == Trim(content)
    IN  IF StartsWith(raw, EDS_HEADER)
        THEN LET b64        == Slice(raw, Len(EDS_HEADER))
                 paddedB64  == b64 \o [i \in 1..((4 - (Len(b64) % 4)) % 4) |-> "="]
                 decompressed == inflate(fromBase64(paddedB64))
             IN  IF ~decompressed.ok THEN Thrown("incorrect header check")
                 ELSE LET parsed == JSONparse(decompressed.text)
                      IN  IF parsed.ok THEN [ok |-> TRUE, doc |-> parsed.value]
                          ELSE Thrown("Unexpected token in JSON")
        ELSE IF StartsWith(raw, TXT_HEADER)
        THEN LET parsed == JSONparse(Slice(raw, Len(TXT_HEADER)))
             IN  IF parsed.ok THEN [ok |-> TRUE, doc |-> parsed.value]
                 ELSE Thrown("Unexpected token in JSON")
        ELSE Thrown("Unknown EDS format - expected header EDS0040000 or TXT0040000")

\* jsonToEds writing the payload as plain JSON behind the TXT header
jsonToEdsPlain(obj) == TXT_HEADER \o JSONstringify(obj)

\* Encode JSON data and write to EDS file: the content written.
jsonToEds(obj) == EDS_HEADER \o toBase64(deflate(JSONstringify(obj)))

\* the string of a text
RECURSIVE Str(_)
Str(text) == IF text = <<>> THEN "" ELSE text[1] \o Str(Tail(text))

\* obj[key] of a JSON object, key a string
Member(obj, key) == obj.v[CHOOSE i \in DOMAIN obj.keys : Str(obj.keys[i]) = key]

\* the keys of a JSON object, as strings
KeysOf(obj) == {Str(obj.keys[i]) : i \in DOMAIN obj.keys}

\* an attribute value read from JSON
PropValue(value) ==
    CASE value.j = "number"  -> N(value.v)
      [] value.j = "string"  -> S(Str(value.v))
      [] value.j = "boolean" -> B(value.v)

\* a number, string, boolean or null read from JSON
PlainValue(value) ==
    CASE value.j = "string" -> Str(value.v)
      [] value.j = "null"   -> Null
      [] OTHER              -> value.v

\* the value JSON.parse returned, taken as EdsData (return JSON.parse(...) of
\* a function declared to return EdsData): the fields the conversion reads
AsEdsData(doc) ==
    LET data == Member(doc, "data").v
        sj   == Member(doc, "sitplanjson")
        els  == Member(sj, "elements").v
    IN  [ length |-> Member(doc, "length").v,
          data   |-> [i \in DOMAIN data |->
                        [ id        |-> Member(data[i], "id").v,
                          parent    |-> Member(data[i], "parent").v,
                          indent    |-> Member(data[i], "indent").v,
                          collapsed |-> Member(data[i], "collapsed").v,
                          props     |-> [k \in KeysOf(Member(data[i], "props")) |->
                                            PropValue(Member(Member(data[i], "props"), k))] ]],
          curid  |-> Member(doc, "curid").v,
          properties |-> IF "properties" \in KeysOf(doc)
                         THEN [k \in { k \in KeysOf(Member(doc, "properties")) :
                                         Member(Member(doc, "properties"), k).j = "string" }
                                 |-> Member(Member(doc, "properties"), k).v]
                         ELSE EmptyObj,
          sitplanjson |->
              [ elements |-> [i \in DOMAIN els |->
                                [k \in KeysOf(els[i]) |-> PlainValue(Member(els[i], k))]] ]
              @@ (IF "defaults" \in KeysOf(sj)
                  THEN [defaults |-> [k \in KeysOf(Member(sj, "defaults")) |->
                                         PlainValue(Member(Member(sj, "defaults"), k))]]
                  ELSE EmptyObj) ]

-----------------------------------------------------------------------------
(* The input documents.  A forest is built from node heads: a leaf is a    *)
(* head as it stands, an inner node is a head given a children key.         *)

MaxNodes == 3
MaxRuns == 2

\* the head with the children kids: for { type, ... } the key children, for
\* the type-keyed mapping { T: {...} } the key children of its value
AddChildren(head, kids) ==
    IF "type" \in DOMAIN head THEN [children |-> kids] @@ head
    ELSE [k \in DOMAIN head |-> [children |-> kids] @@ head[k]]

RECURSIVE TreesN(_, _, _), ForestsN(_, _, _)

\* the trees of exactly n nodes
TreesN(leafHeads, innerHeads, n) ==
    IF n = 1 THEN leafHeads
    ELSE { AddChildren(h, f) : h \in innerHeads, f \in ForestsN(leafHeads, innerHeads, n - 1) }

\* the forests of exactly n nodes
ForestsN(leafHeads, innerHeads, n) ==
    IF n = 0 THEN {<<>>}
    ELSE UNION { { <<t>> \o f : t \in TreesN(leafHeads, innerHeads, k),
                                f \in ForestsN(leafHeads, innerHeads, n - k) } : k \in 1..n }

Forests(leafHeads, innerHeads) ==
    UNION { ForestsN(leafHeads, innerHeads, n) : n \in 0..MaxNodes }

\* heads for the structure of a document: Krings and their children, explicit
\* and automatic numbers
LeafHeads ==
    { S("Kring"), S("Contactdoos"),
      [type |-> "Contactdoos", nr |-> S("1")],
      [Contactdoos |-> [aantal |-> S("2")]],
      [Contactdoos |-> [nr |-> S("7")]] }

InnerHeads ==
    { [type |-> "Kring"], [type |-> "Contactdoos"],
      [type |-> "Contactdoos", nr |-> S("1")],
      [Kring |-> [amperage |-> S("20")]] }

\* no EdsData in memory, no .eds file, no call of edsToJson yet
NoDoc == [j |-> "undefined"]
NoFile == [exists |-> FALSE]
NotCalled == [called |-> FALSE]

\* no EdsData written yet, no document built yet
NoEds == [absent |-> TRUE]
NoYaml == [absent |-> TRUE]

-----------------------------------------------------------------------------
(* The commands *)

\* yaml2eds: compileTree on the elements and the sitplan of the document, the
\* result written as the .eds file
YamlToEds ==
    /\ runs < MaxRuns
    /\ LET st == walkRoots(FreshWalkState, yamlDoc.elements, 1)
           sj == buildSitplanJson(yamlDoc, st.refToId, assets)
       IN  /\ edsData' = EdsDataOf(st, yamlDoc, sj.json)
           /\ walkState' = st
           /\ warnings' = warnings \o sj.warnings
    /\ prevRun' = [eds |-> edsData, refToId |-> walkState.refToId]
    /\ runs' = runs + 1
    /\ UNCHANGED <<yamlDoc, rootIndex, yamlOut, idToRef, assets, packedDoc, edsFile, decoded, edsData2, yamlOut2>>

\* eds2yaml: edsToYamlData on the .eds file, the document written as the
\* .yaml output beside the images taken out of it
EdsToYaml ==
    /\ "data" \in DOMAIN edsData
    /\ LET r == edsToYamlData(edsData)
       IN  /\ yamlOut' = r.doc
           /\ idToRef' = r.idToRef
           /\ assets' = assets \cup r.written
    /\ UNCHANGED <<yamlDoc, edsData, prevRun, walkState, rootIndex, runs, warnings, packedDoc, edsFile, decoded, edsData2, yamlOut2>>

InitTree ==
    /\ edsData = NoEds
    /\ edsData2 = NoEds
    /\ yamlOut2 = NoYaml
    /\ prevRun = [eds |-> NoEds, refToId |-> EmptyObj]
    /\ walkState = [ data |-> <<>>, active |-> <<>>, ids |-> <<>>, nextId |-> 1,
                     refToId |-> EmptyObj, counter |-> 0,
                     currentKringName |-> NoKringName, kringLog |-> <<>> ]
    /\ rootIndex = 0
    /\ runs = 0
    /\ yamlOut = NoYaml
    /\ idToRef = <<>>
    /\ warnings = <<>>

\* ... and no .eds file at hand: outside SpecCodec the .eds file stands as the
\* EdsData it holds
InitRest ==
    /\ InitTree
    /\ packedDoc = NoDoc
    /\ edsFile = NoFile
    /\ decoded = NotCalled

Init ==
    /\ yamlDoc \in { [elements |-> f] : f \in Forests(LeafHeads, InnerHeads) }
    /\ assets = {}
    /\ InitRest

Next == YamlToEds \/ EdsToYaml

Spec == Init /\ [][Next]_vars

-----------------------------------------------------------------------------
(* the .eds file written and read *)

\* {"length":0,"data":[],"curid":1,"sitplanjson":{"elements":[]}}
PackedEmpty ==
    JObj(<<<<"l", "e", "n", "g", "t", "h">>, <<"d", "a", "t", "a">>, <<"c", "u", "r", "i", "d">>, <<"s", "i", "t", "p", "l", "a", "n", "j", "s", "o", "n">>>>,
            <<JNum(0),
              JArr(<<>>),
              JNum(1),
              JObj(<<<<"e", "l", "e", "m", "e", "n", "t", "s">>>>,
            <<JArr(<<>>)>>)>>)

\* {"length":1,"data":[{"id":1,"parent":0,"indent":0,"collapsed":false,"p
\*   rops":{"type":"Kring","nr":"","amperage":20},"sourcelist":null}],"curi
\*   d":2,"sitplanjson":{"elements":[]}}
PackedKring ==
    JObj(<<<<"l", "e", "n", "g", "t", "h">>, <<"d", "a", "t", "a">>, <<"c", "u", "r", "i", "d">>, <<"s", "i", "t", "p", "l", "a", "n", "j", "s", "o", "n">>>>,
            <<JNum(1),
              JArr(<<JObj(<<<<"i", "d">>, <<"p", "a", "r", "e", "n", "t">>, <<"i", "n", "d", "e", "n", "t">>, <<"c", "o", "l", "l", "a", "p", "s", "e", "d">>, <<"p", "r", "o", "p", "s">>, <<"s", "o", "u", "r", "c", "e", "l", "i", "s", "t">>>>,
            <<JNum(1),
              JNum(0),
              JNum(0),
              JBool(FALSE),
              JObj(<<<<"t", "y", "p", "e">>, <<"n", "r">>, <<"a", "m", "p", "e", "r", "a", "g", "e">>>>,
            <<JStr(<<"K", "r", "i", "n", "g">>),
              JStr(<<>>),
              JNum(20)>>),
              JNull>>)>>),
              JNum(2),
              JObj(<<<<"e", "l", "e", "m", "e", "n", "t", "s">>>>,
            <<JArr(<<>>)>>)>>)

\* {"length":2,"data":[{"id":1,"parent":0,"indent":0,"collapsed":false,"p
\*   rops":{"type":"Kring","nr":""},"sourcelist":null},{"id":2,"parent":1,"
\*   indent":1,"collapsed":false,"props":{"aantal":"2","type":"Contactdoos"
\*   ,"nr":"1"},"sourcelist":null}],"curid":3,"sitplanjson":{"elements":[]}
\*   }
PackedNested ==
    JObj(<<<<"l", "e", "n", "g", "t", "h">>, <<"d", "a", "t", "a">>, <<"c", "u", "r", "i", "d">>, <<"s", "i", "t", "p", "l", "a", "n", "j", "s", "o", "n">>>>,
            <<JNum(2),
              JArr(<<JObj(<<<<"i", "d">>, <<"p", "a", "r", "e", "n", "t">>, <<"i", "n", "d", "e", "n", "t">>, <<"c", "o", "l", "l", "a", "p", "s", "e", "d">>, <<"p", "r", "o", "p", "s">>, <<"s", "o", "u", "r", "c", "e", "l", "i", "s", "t">>>>,
            <<JNum(1),
              JNum(0),
              JNum(0),
              JBool(FALSE),
              JObj(<<<<"t", "y", "p", "e">>, <<"n", "r">>>>,
            <<JStr(<<"K", "r", "i", "n", "g">>),
              JStr(<<>>)>>),
              JNull>>), JObj(<<<<"i", "d">>, <<"p", "a", "r", "e", "n", "t">>, <<"i", "n", "d", "e", "n", "t">>, <<"c", "o", "l", "l", "a", "p", "s", "e", "d">>, <<"p", "r", "o", "p", "s">>, <<"s", "o", "u", "r", "c", "e", "l", "i", "s", "t">>>>,
            <<JNum(2),
              JNum(1),
              JNum(1),
              JBool(FALSE),
              JObj(<<<<"a", "a", "n", "t", "a", "l">>, <<"t", "y", "p", "e">>, <<"n", "r">>>>,
            <<JStr(<<"2">>),
              JStr(<<"C", "o", "n", "t", "a", "c", "t", "d", "o", "o", "s">>),
              JStr(<<"1">>)>>),
              JNull>>)>>),
              JNum(3),
              JObj(<<<<"e", "l", "e", "m", "e", "n", "t", "s">>>>,
            <<JArr(<<>>)>>)>>)

CodecDocs == {PackedEmpty, PackedKring, PackedNested}

\* a text without the "=" at its end
RECURSIVE Unpadded(_)
Unpadded(text) ==
    IF text # <<>> /\ text[Len(text)] = "=" THEN Unpadded(SubSeq(text, 1, Len(text) - 1))
    ELSE text

\* the text with one character replaced
Damaged(text, i, c) == [text EXCEPT ![i] = c]

\* .eds files as an editor or another tool leaves them: the payload compressed
\* or plain, the padding of the base64 text left off, white space around the
\* content
FilesOf(doc) ==
    LET json == JSONstringify(doc)
        b64  == toBase64(deflate(json))
    IN  { EDS_HEADER \o b64,
          EDS_HEADER \o Unpadded(b64),
          EDS_HEADER \o b64 \o <<"\n">>,
          <<" ", "\n">> \o EDS_HEADER \o b64,
          TXT_HEADER \o json,
          <<"\n">> \o TXT_HEADER \o json \o <<"\n">> }

\* files that are no .eds file: another tag before a compressed and before a
\* plain payload, a tag in lower case, a tag cut short, nothing at all; and
\* files with a known tag whose payload is damaged
BadFiles ==
    LET json == JSONstringify(PackedKring)
        b64  == toBase64(deflate(json))
    IN  { <<"X", "M", "L", "0", "0", "4", "0", "0", "0", "0">> \o b64,
          <<"e", "d", "s", "0", "0", "4", "0", "0", "0", "0">> \o b64,
          <<"E", "D", "S", "0", "0", "4">>,
          <<>>,
          <<"J", "S", "N", "0", "0", "4", "0", "0", "0", "0">> \o json,
          EDS_HEADER \o Damaged(b64, 20, "A"),
          EDS_HEADER \o json,
          TXT_HEADER \o SubSeq(json, 1, Len(json) - 1) }

\* jsonToEds(edsData, edsPath), the last step of yamlToEds
WriteEds ==
    /\ edsFile' = [exists |-> TRUE, content |-> jsonToEds(packedDoc)]
    /\ UNCHANGED <<yamlDoc, edsData, prevRun, walkState, rootIndex, runs, yamlOut, idToRef,
                   warnings, assets, packedDoc, decoded, edsData2, yamlOut2>>

\* eds2yaml on the .eds file: edsToYaml calls edsToYamlData, which calls
\* edsToJson first; where that throws, main prints the message and exits,
\* nothing built and nothing written; otherwise the images are written and
\* then the document
EdsFileToYaml ==
    /\ edsFile.exists
    /\ LET r == edsToJson(edsFile.content)
       IN  /\ decoded' = [called |-> TRUE, read |-> edsFile.content] @@ r
           /\ IF r.ok
              THEN LET y == edsToYamlData(AsEdsData(r.doc))
                   IN  /\ yamlOut' = y.doc
                       /\ idToRef' = y.idToRef
                       /\ assets' = assets \cup y.written
              ELSE UNCHANGED <<yamlOut, idToRef, assets>>
    /\ UNCHANGED <<yamlDoc, edsData, prevRun, walkState, rootIndex, runs, warnings,
                   packedDoc, edsFile, edsData2, yamlOut2>>

InitCodec ==
    /\ yamlDoc = [elements |-> <<>>]
    /\ assets = {}
    /\ InitTree
    /\ packedDoc \in CodecDocs
    /\ edsFile \in {NoFile}
                   \cup { [exists |-> TRUE, content |-> f] :
                            f \in BadFiles \cup UNION { FilesOf(doc) : doc \in CodecDocs } }
    /\ decoded = NotCalled

NextCodec == WriteEds \/ EdsFileToYaml

SpecCodec == InitCodec /\ [][NextCodec]_vars

-----------------------------------------------------------------------------
(* compileTree root by root, on documents of many Krings *)

\* the number of roots of a long document
MaxKrings == 703

\* the i-th root of a long document of the given kind: Krings only, or Krings
\* with attributes, children and nested Krings among other elements
LongRoot(kind, i) ==
    IF kind = "bare" THEN S("Kring")
    ELSE IF i % 4 = 0 THEN [Kring |-> [amperage |-> S("20"), naam |-> S("Z")]]
    ELSE IF i % 4 = 1 THEN [type |-> "Kring", children |-> <<S("Contactdoos")>>]
    ELSE IF i % 4 = 2 THEN [Kring |-> [children |-> <<[type |-> "Kring", nr |-> S("A")]>>]]
    ELSE [Contactdoos |-> [aantal |-> S("2")]]

LongDocs ==
    { [elements |-> [i \in 1..MaxKrings |-> LongRoot(kind, i)]] : kind \in {"bare", "mixed"} }

\* one turn of  for (const root of tree) walk(root); the first turn of a run
\* follows the declarations of compileTree
WalkRoot ==
    /\ runs < MaxRuns
    /\ rootIndex < Len(yamlDoc.elements)
    /\ IF rootIndex = 0
       THEN /\ walkState' = walk(FreshWalkState, yamlDoc.elements[1], 0, 0, NoAutoNr)
            /\ prevRun' = [eds |-> edsData, refToId |-> walkState.refToId]
       ELSE /\ walkState' = walk(walkState, yamlDoc.elements[rootIndex + 1], 0, 0, NoAutoNr)
            /\ UNCHANGED prevRun
    /\ rootIndex' = rootIndex + 1
    /\ UNCHANGED <<yamlDoc, edsData, runs, yamlOut, idToRef, warnings, assets, packedDoc, edsFile, decoded, edsData2, yamlOut2>>

\* the return of compileTree once every root is walked, the result written as
\* the .eds file
ReturnEds ==
    /\ runs < MaxRuns
    /\ rootIndex = Len(yamlDoc.elements)
    /\ LET sj == buildSitplanJson(yamlDoc, walkState.refToId, assets)
       IN  /\ edsData' = EdsDataOf(walkState, yamlDoc, sj.json)
           /\ warnings' = warnings \o sj.warnings
    /\ rootIndex' = 0
    /\ runs' = runs + 1
    /\ UNCHANGED <<yamlDoc, prevRun, walkState, yamlOut, idToRef, assets, packedDoc, edsFile, decoded, edsData2, yamlOut2>>

InitLong ==
    /\ yamlDoc \in LongDocs
    /\ assets = {}
    /\ InitRest

NextLong == WalkRoot \/ ReturnEds

SpecLong == InitLong /\ [][NextLong]_vars

-----------------------------------------------------------------------------
(* documents with a sitplan *)

\* layers that refer to an element by a label the documents below can hold, by
\* a label none of them holds, by id; an image layer; a layer that refers to nothing
LayerOptions ==
    { [ref |-> "A.1", pos |-> <<1000, 2000>>],
      [ref |-> "A.2", pos |-> <<3014, 4000>>, scale |-> 50, page |-> 2],
      [ref |-> "Z.9", pos |-> <<500, 500>>],
      [id |-> 2, pos |-> <<700, 800>>],
      [image |-> "plan.png", pos |-> <<0, 0>>, size |-> <<10000, 5000>>],
      [pos |-> <<100, 100>>] }

RECURSIVE LayerLists(_)
LayerLists(n) ==
    IF n = 0 THEN {<<>>}
    ELSE LayerLists(n - 1)
         \cup { Append(ls, l) : ls \in { x \in LayerLists(n - 1) : Len(x) = n - 1 },
                                 l \in LayerOptions }

InitOverlay ==
    /\ yamlDoc \in { [elements |-> f, sitplan |-> [layers |-> ls]] :
                        f \in Forests({S("Contactdoos")}, {[type |-> "Kring"]}),
                        ls \in LayerLists(MaxLayers) }
    /\ assets = {"plan.png"}
    /\ InitRest

SpecOverlay == InitOverlay /\ [][Next]_vars

\* heads for the attributes of a document: values that differ from the default,
\* a value whose text is the default's text, attributes without a default, the
\* attributes eds2yaml never writes, a type the schema does not know
AttrLeafHeads ==
    { S("Contactdoos"), S("Lichtpunt"),
      [Contactdoos |-> [aantal |-> S("2")]],
      [Contactdoos |-> [aantal |-> N(1)]],
      [Contactdoos |-> [adres |-> S("hal")]],
      [Kring |-> [naam |-> S("Keuken")]],
      [type |-> "Contactdoos", props |-> [is_halfwaterdicht |-> B(TRUE)]],
      [type |-> "Contactdoos", nr |-> S("5")] }

AttrInnerHeads ==
    { [type |-> "Kring"],
      [Kring |-> [amperage |-> S("20")]],
      [Contactdoos |-> [props |-> [aantal |-> S("3")], is_halfwaterdicht |-> B(TRUE)]] }

InitAttr ==
    /\ yamlDoc \in { [elements |-> f] : f \in Forests(AttrLeafHeads, AttrInnerHeads) }
    /\ assets = {}
    /\ InitRest

SpecAttr == InitAttr /\ [][Next]_vars

-----------------------------------------------------------------------------
(* Reading the input document, for the statements below *)

\* a compileTree run has written the packed form of yamlDoc
Compiled == "data" \in DOMAIN edsData

\* an edsToYamlData run has built a document from it
Built == "elements" \in DOMAIN yamlOut

\* the paths of the nodes of a forest: <<k>> is the k-th root, p \o <<k>> the
\* k-th child of the node at p
RECURSIVE PathsOf(_)
PathsOf(nodes) ==
    UNION { {<<k>>} \cup { <<k>> \o q : q \in PathsOf(ChildrenOf(normalizeNode(nodes[k]))) }
            : k \in DOMAIN nodes }

\* the node at a path, in standard format
RECURSIVE NodeAt(_, _)
NodeAt(nodes, p) ==
    LET n == normalizeNode(nodes[p[1]])
    IN  IF Len(p) = 1 THEN n ELSE NodeAt(ChildrenOf(n), Tail(p))

\* p is before q in depth-first preorder: p is a proper prefix of q, or p
\* branches off to an earlier child where they first differ
Before(p, q) ==
    \/ Len(p) < Len(q) /\ SubSeq(q, 1, Len(p)) = p
    \/ \E k \in 1..Len(p) :
          /\ k <= Len(q)
          /\ SubSeq(p, 1, k - 1) = SubSeq(q, 1, k - 1)
          /\ p[k] < q[k]

\* the position of the node at p in depth-first preorder, from 1
Rank(paths, p) == Cardinality({q \in paths : Before(q, p)}) + 1

Parent(p) == SubSeq(p, 1, Len(p) - 1)

InputPaths == PathsOf(yamlDoc.elements)

IsKringAt(p) == TypeOf(NodeAt(yamlDoc.elements, p)) = "Kring"

\* the packed element of the node at p, given that ids follow the preorder
ItemAt(p) == edsData.data[Rank(InputPaths, p)]

-----------------------------------------------------------------------------
(* C2: the packed element list of compileTree has the ids 1..n in array    *)
(* order, which is the depth-first preorder of the input; the parent of an *)
(* element is 0 for a root and the id of the enclosing node otherwise,     *)
(* which is earlier in the array; indent is the nesting depth.             *)
C2_PreorderIds ==
    Compiled =>
        /\ Len(edsData.data) = Cardinality(InputPaths)
        /\ \A i \in DOMAIN edsData.data : edsData.data[i].id = i
        /\ \A p \in InputPaths :
              LET item == ItemAt(p)
              IN  /\ String(item.props.type) = TypeOf(NodeAt(yamlDoc.elements, p))
                  /\ item.indent = Len(p) - 1
                  /\ item.parent = IF Len(p) = 1 THEN 0 ELSE Rank(InputPaths, Parent(p))
                  /\ item.parent < item.id
                  /\ Len(p) > 1 => item.indent = edsData.data[item.parent].indent + 1

\* a compiled document with a nested node that is followed by a later root
C2_Witness ==
    /\ Compiled
    /\ \E i, j \in DOMAIN edsData.data :
          /\ edsData.data[i].indent = 1
          /\ edsData.data[i].parent = i - 1
          /\ j > i
          /\ edsData.data[j].indent = 0
          /\ edsData.data[j].parent = 0

-----------------------------------------------------------------------------
(* C3: auto-numbering of the direct children of a Kring *)

\* the paths of the direct children of the node at p
ChildPaths(p) == {q \in InputPaths : Len(q) = Len(p) + 1 /\ Parent(q) = p}

\* the node at p has a Kring as its parent
IsKringChild(p) == Len(p) > 1 /\ IsKringAt(Parent(p))

\* the node gives an nr of its own: as the key nr of the node
HasNrKey(p) == "nr" \in DOMAIN NodeAt(yamlDoc.elements, p)

\* ... or among its attributes
HasNrAttribute(p) == "nr" \in DOMAIN PropsOf(NodeAt(yamlDoc.elements, p))

\* the Krings none of whose direct children carries an explicit nr
PlainKrings == {p \in InputPaths : IsKringAt(p) /\ \A q \in ChildPaths(p) : ~HasNrKey(q)}

\* no Kring lies inside another
NoNestedKrings ==
    \A p, q \in InputPaths : IsKringAt(p) /\ IsKringAt(q) => ~(Len(p) < Len(q) /\ SubSeq(q, 1, Len(p)) = p)

\* the name the generator gave the Kring at p
KringNameAt(p) ==
    LET e == CHOOSE e \in {walkState.kringLog[i] : i \in DOMAIN walkState.kringLog} : e.id = ItemAt(p).id
    IN  e.name

\* the k-th direct child of a plain Kring has nr = String(k)
ChildrenNumbered ==
    \A p \in PlainKrings : \A q \in ChildPaths(p) :
        ItemAt(q).props.nr = S(ToString(q[Len(q)]))

\* a node that is no direct child of a Kring has the nr it gives, or ""
OthersNotNumbered ==
    \A p \in InputPaths :
        ~IsKringChild(p) =>
            ItemAt(p).props.nr =
                IF HasNrKey(p) THEN S(String(NodeAt(yamlDoc.elements, p).nr))
                ELSE IF HasNrAttribute(p) THEN PropsOf(NodeAt(yamlDoc.elements, p)).nr
                ELSE S("")

\* the k-th direct child of a plain Kring is in the label map under the
\* name of its Kring and k
ChildrenLabelled ==
    \A p \in PlainKrings : \A q \in ChildPaths(p) :
        LET ref == KringNameAt(p) \o "." \o ToString(q[Len(q)])
        IN  ref \in DOMAIN walkState.refToId /\ walkState.refToId[ref] = ItemAt(q).id

-----------------------------------------------------------------------------
(* C4: compileTree run twice in one process on the same tree gives the     *)
(* same packed output and the same label map; the second run starts again  *)
(* at id 1 and at the Kring name A.                                        *)
C4_RunsAgree ==
    runs >= 2 =>
        /\ edsData = prevRun.eds
        /\ walkState.refToId = prevRun.refToId
        /\ Len(edsData.data) > 0 => edsData.data[1].id = 1
        /\ Len(walkState.kringLog) > 0 => walkState.kringLog[1].name = "A"

\* a second run on a document with a Kring and a labelled child
C4_Witness ==
    /\ runs = 2
    /\ Len(walkState.kringLog) > 0
    /\ DOMAIN walkState.refToId # {}
    /\ "data" \in DOMAIN prevRun.eds


-----------------------------------------------------------------------------
(* C5: stripping is the inverse of applying the defaults to no attributes *)

\* the packed items of a known type whose attributes are exactly the defaults
\* of the type (besides type and nr, which compileTree always sets)
DefaultOnlyItems ==
    IF Compiled
    THEN { i \in DOMAIN edsData.data :
             LET props == edsData.data[i].props
             IN  /\ TypeOfProps(props) \in DOMAIN SCHEMA
                 /\ Without(props, {"type", "nr"})
                      = applyDefaults(TypeOfProps(props), EmptyObj) }
    ELSE {}

\* C5: for every element type X of the schema, stripDefaults(X,
\* applyDefaults(X, {})) is the empty attribute mapping; so every packed item
\* that holds just the defaults of its type strips to no attributes at all.
C5_StripInverse ==
    /\ \A X \in DOMAIN SCHEMA :
          stripDefaults(X, applyDefaults(X, EmptyObj)) = EmptyObj
    /\ \A i \in DefaultOnlyItems :
          stripDefaults(TypeOfProps(edsData.data[i].props), edsData.data[i].props) = EmptyObj

\* a bare Contactdoos was compiled to an item holding the two defaults of the
\* type, and built back as the bare type name
C5_Witness ==
    /\ Built
    /\ \E i \in DefaultOnlyItems :
          /\ edsData.data[i].props.type = S("Contactdoos")
          /\ edsData.data[i].parent = 0
          /\ DOMAIN edsData.data[i].props = {"type", "nr", "aantal", "is_halfwaterdicht"}
    /\ \E k \in DOMAIN yamlOut.elements : yamlOut.elements[k] = S("Contactdoos")

-----------------------------------------------------------------------------
(* C1: the round trip of a tree document *)

\* the structure of a node, whichever form it is written in: its type, its
\* attribute mapping without the _comment annotation, its children in order
RECURSIVE Canon(_)
Canon(node) ==
    LET n    == normalizeNode(node)
        kids == ChildrenOf(n)
    IN  [ type     |-> TypeOf(n),
          props    |-> Without(PropsOf(n), {"_comment"}),
          children |-> [i \in DOMAIN kids |-> Canon(kids[i])] ]

CanonForest(nodes) == [i \in DOMAIN nodes |-> Canon(nodes[i])]

\* every node of the input is of a type the schema knows
KnownTypesOnly ==
    \A p \in InputPaths :
        TypeOf(normalizeNode(NodeAt(yamlDoc.elements, p))) \in DOMAIN SCHEMA

\* every attribute of the input that has a default differs from it, as text
DefaultDivergent ==
    \A p \in InputPaths :
        LET n     == normalizeNode(NodeAt(yamlDoc.elements, p))
            props == PropsOf(n)
            dflt  == getDefaults(TypeOf(n))
        IN  \A k \in DOMAIN props \cap DOMAIN dflt : String(props[k]) # String(dflt[k])

\* no node of the input gives an nr, and no attribute of the input is one
\* that stripDefaults always leaves out
NothingSuppressed ==
    \A p \in InputPaths :
        LET n     == normalizeNode(NodeAt(yamlDoc.elements, p))
            props == PropsOf(n)
        IN  /\ "nr" \notin DOMAIN n
            /\ DOMAIN props \cap {"type", "nr"} = {}
            /\ ~(TypeOf(n) = "Kring" /\ "naam" \in DOMAIN props)
            /\ \A k \in DOMAIN props \cap {"autonr", "autoKringNaam"} : props[k] # S("auto")

\* the document built from the packed form of the input has the structure of the input
RoundTripEqual == CanonForest(yamlOut.elements) = CanonForest(yamlDoc.elements)

\* C1 as stated: for any tree of known types whose attributes all differ from
\* the default, buildTree(compileTree(T).data) equals T up to _comment.
C1_AsStated ==
    (Built /\ KnownTypesOnly /\ DefaultDivergent) => RoundTripEqual

\* C1: for any tree of known types whose nodes give no nr and whose attributes
\* all differ as text from the default and are none of those eds2yaml never
\* writes (type, nr, the naam of a Kring, an "auto" autonr or autoKringNaam),
\* buildTree(compileTree(T).data) has the node types, nesting, child order and
\* attribute mappings of T, up to the _comment annotations.
C1_RoundTrip ==
    (Built /\ KnownTypesOnly /\ DefaultDivergent /\ NothingSuppressed) => RoundTripEqual

\* a Kring with a non-default amperage over a Contactdoos with a non-default
\* aantal, followed by a bare root, has been compiled and built back with its
\* display label
C1_Witness ==
    /\ Built /\ KnownTypesOnly /\ DefaultDivergent /\ NothingSuppressed
    /\ yamlDoc.elements =
          << [Kring |-> [amperage |-> S("20"),
                         children |-> <<[Contactdoos |-> [aantal |-> S("2")]]>>]],
             S("Contactdoos") >>
    /\ yamlOut.elements[1].Kring._comment = S("#A")
    /\ yamlOut.elements[1].Kring.amperage = S("20")
    /\ yamlOut.elements[2] = S("Contactdoos")

-----------------------------------------------------------------------------
(* C6: the names of the Krings *)

\* the number of names of fewer than len letters: 26 + 26^2 + ... + 26^(len-1)
RECURSIVE ShorterNames(_)
ShorterNames(len) == IF len <= 1 THEN 0 ELSE 26 * (ShorterNames(len - 1) + 1)

\* the number k written with len letters, A for the digit 0 ... Z for 25
RECURSIVE InLetters(_, _)
InLetters(k, len) ==
    IF len = 0 THEN "" ELSE InLetters(k \div 26, len - 1) \o Letters[(k % 26) + 1]

\* the index-th name (from 0) of the sequence A..Z, AA..ZZ, AAA.., as a
\* spreadsheet names its columns: the names of one length in alphabetical order
ColumnName(index) ==
    LET len == CHOOSE l \in 1..5 : ShorterNames(l) <= index /\ index < ShorterNames(l + 1)
    IN  InLetters(index - ShorterNames(len), len)

\* the packed items of type Kring, by position in data
KringItems == { i \in DOMAIN walkState.data : walkState.data[i].props.type = S("Kring") }

\* the position in data of the root walked last
RECURSIVE LastRootUpTo(_)
LastRootUpTo(i) ==
    IF i = 0 \/ walkState.data[i].parent = 0 THEN i ELSE LastRootUpTo(i - 1)

LastRoot == LastRootUpTo(Len(walkState.data))

\* C6: the N-th Kring visited (N from 0) gets the N-th name of A..Z, AA..AZ,
\* BA..ZZ, AAA.. (25 is Z, 26 AA, 51 AZ, 52 BA, 701 ZZ, 702 AAA) whatever its
\* attributes and siblings are, and no two Krings get the same name.  Stated
\* of the Krings visited since the last root was entered: every Kring is one
\* of these in the state that follows the walk of its root.
C6_KringNames ==
    LET log  == walkState.kringLog
        last == LastRoot
    IN  /\ Len(log) = Cardinality(KringItems)
        /\ \A n \in DOMAIN log :
              log[n].id >= last =>
                /\ log[n].name = ColumnName(n - 1)
                /\ log[n].id \in KringItems
                /\ n > 1 => log[n - 1].id < log[n].id
                /\ \A m \in 1..(n - 1) : log[m].name # log[n].name
        /\ Len(log) > 0 => walkState.currentKringName = log[Len(log)].name
        /\ Len(log) > 25  => log[26].name  = "Z"
        /\ Len(log) > 26  => log[27].name  = "AA"
        /\ Len(log) > 51  => log[52].name  = "AZ"
        /\ Len(log) > 52  => log[53].name  = "BA"
        /\ Len(log) > 701 => log[702].name = "ZZ"
        /\ Len(log) > 702 => log[703].name = "AAA"

\* the 703rd Kring of a document whose Krings differ in attributes, children
\* and neighbours has been visited and named AAA
C6_Witness ==
    /\ Len(walkState.kringLog) >= 703
    /\ walkState.kringLog[703].name = "AAA"
    /\ walkState.kringLog[702].name = "ZZ"
    /\ walkState.data[2].props.type = S("Contactdoos")
    /\ walkState.data[walkState.kringLog[703].id].parent # 0

-----------------------------------------------------------------------------
(* C9: the sitplan on the way out, yaml2eds *)

\* the layers of the input document
InputLayers == IF "sitplan" \in DOMAIN yamlDoc THEN yamlDoc.sitplan.layers ELSE <<>>

IsImageLayer(layer) == "image" \in DOMAIN layer /\ layer.image # ""

\* an element-anchored layer carrying a label
IsRefLayer(layer) == ~IsImageLayer(layer) /\ "ref" \in DOMAIN layer /\ layer.ref # ""

\* an element-anchored layer carrying an id and no label
IsIdLayer(layer) == ~IsImageLayer(layer) /\ ~IsRefLayer(layer) /\ "id" \in DOMAIN layer

\* the positions of the layers whose label the label map of the run does not hold
DroppedLayers ==
    { i \in DOMAIN InputLayers :
        IsRefLayer(InputLayers[i]) /\ InputLayers[i].ref \notin DOMAIN walkState.refToId }

\* the positions of the layers that stand for an entry of the packed sitplan
EmittedLayers ==
    { i \in DOMAIN InputLayers \ DroppedLayers :
        IsImageLayer(InputLayers[i]) \/ IsRefLayer(InputLayers[i]) \/ IsIdLayer(InputLayers[i]) }

\* the entry of the packed sitplan for the layer at i: entries are in the
\* order of their layers
EntryOf(i) ==
    edsData.sitplanjson.elements[Cardinality({j \in EmittedLayers : j <= i})]

\* the warning about a label
RefWarning(ref) == "Warning: sitplan ref '" \o ref \o "' not found in schema"

\* the input document without the layers that are dropped
WithoutDropped ==
    [elements |-> yamlDoc.elements,
     sitplan  |-> [layers |-> SelectSeq(InputLayers, LAMBDA l :
                       ~(IsRefLayer(l) /\ l.ref \notin DOMAIN walkState.refToId))]]

\* C9: a layer with a ref the label map holds gives an entry with the id the
\* map holds for it, at the pos of the layer; a layer with a ref the map does
\* not hold gives no entry and one warning, and the run goes on; the entries of
\* the other layers are those the document gives without the dropped layers,
\* in the order of their layers.
C9_OverlayExport ==
    Compiled =>
      /\ Len(edsData.sitplanjson.elements) = Cardinality(EmittedLayers)
      /\ \A i \in EmittedLayers :
            LET layer == InputLayers[i]
            IN  /\ EntryOf(i).posx = layer.pos[1]
                /\ EntryOf(i).posy = layer.pos[2]
                /\ IsRefLayer(layer) => EntryOf(i).electroItemId = walkState.refToId[layer.ref]
                /\ IsIdLayer(layer) => EntryOf(i).electroItemId = layer.id
                /\ IsImageLayer(layer) => EntryOf(i).electroItemId = Null
      /\ edsData.sitplanjson = buildSitplanJson(WithoutDropped, walkState.refToId, assets).json
      /\ Len(SelectSeq(warnings, LAMBDA w : \E i \in DroppedLayers : w = RefWarning(InputLayers[i].ref)))
           = runs * Cardinality(DroppedLayers)
      /\ edsData.length = Cardinality(InputPaths)

\* against the labels A.1 -> 2 and A.2 -> 3, the layer with ref Z.9 is gone
\* with a warning and the layer {ref: A.1, pos: [10, 20]} after it is the only
\* entry, with id 2 at (10, 20)
C9_Witness ==
    /\ Compiled
    /\ walkState.refToId = ("A.1" :> 2 @@ "A.2" :> 3)
    /\ InputLayers = << [ref |-> "Z.9", pos |-> <<500, 500>>],
                        [ref |-> "A.1", pos |-> <<1000, 2000>>] >>
    /\ Len(edsData.sitplanjson.elements) = 1
    /\ edsData.sitplanjson.elements[1].electroItemId = 2
    /\ edsData.sitplanjson.elements[1].posx = 1000
    /\ edsData.sitplanjson.elements[1].posy = 2000
    /\ warnings = <<RefWarning("Z.9")>>

-----------------------------------------------------------------------------
(* C10: the sitplan on the way in, eds2yaml *)

\* the layers of the built document
OutputLayers == IF "sitplan" \in DOMAIN yamlOut THEN yamlOut.sitplan.layers ELSE <<>>

\* the positions of the packed entries that stand for an element
ElectroEntries ==
    { i \in DOMAIN edsData.sitplanjson.elements :
        edsData.sitplanjson.elements[i].electroItemId # Null }

\* the positions of the packed entries that give a layer: those of an element
\* and those of an embedded image
LayeredEntries ==
    ElectroEntries
    \cup { i \in DOMAIN edsData.sitplanjson.elements : edsData.sitplanjson.elements[i].svg # "" }

\* the layer of the built document for the entry at i
LayerOf(i) == OutputLayers[Cardinality({j \in LayeredEntries : j <= i})]

\* C10: every packed entry with a non-null electroItemId has exactly one layer
\* in the built document, which carries ref or id and never both: the label as
\* ref when the label map built from the data has one for the id, the id
\* otherwise.
C10_OverlayImport ==
    Built =>
      /\ Len(OutputLayers) = Cardinality(LayeredEntries)
      /\ \A i \in ElectroEntries :
            LET id    == edsData.sitplanjson.elements[i].electroItemId
                layer == LayerOf(i)
            IN  /\ ("ref" \in DOMAIN layer) # ("id" \in DOMAIN layer)
                /\ id \in DOMAIN idToRef => "ref" \in DOMAIN layer /\ layer.ref = idToRef[id]
                /\ id \notin DOMAIN idToRef => "id" \in DOMAIN layer /\ layer.id = id
      /\ \A i \in LayeredEntries \ ElectroEntries :
            DOMAIN LayerOf(i) \cap {"ref", "id"} = {}

\* the entry for the Contactdoos of the Kring came back with its label, the
\* entry for the Kring itself, which has no label, with its id
C10_Witness ==
    /\ Built
    /\ idToRef = (3 :> "A.1")
    /\ Len(edsData.sitplanjson.elements) = 2
    /\ edsData.sitplanjson.elements[1].electroItemId = 3
    /\ edsData.sitplanjson.elements[2].electroItemId = 2
    /\ OutputLayers = << [pos |-> <<1000, 2000>>, ref |-> "A.1"],
                         [pos |-> <<700, 800>>, id |-> 2] >>

-----------------------------------------------------------------------------
(* C7: the envelope written and read back *)

\* the content read has the tag
HasTag(content, header) == StartsWith(content, header)

\* what jsonToEds writes for each document, and the same document as plain
\* JSON behind the TXT tag
CompressedFile == [doc \in CodecDocs |-> jsonToEds(doc)]
PlainFile == [doc \in CodecDocs |-> TXT_HEADER \o JSONstringify(doc)]

\* C7: edsToJson on what jsonToEds wrote for a document returns a deep-equal
\* document, and returns the same for the plain JSON of the document behind
\* TXT0040000; what jsonToEds writes is EDS0040000 followed by the base64 of
\* the deflate of the JSON of the document.
C7_EnvelopeRoundTrip ==
    /\ [](decoded.called =>
            \A doc \in CodecDocs :
                decoded.read \in {CompressedFile[doc], PlainFile[doc]}
                    => decoded.ok /\ decoded.doc = doc)
    /\ [][edsFile' # edsFile =>
            /\ edsFile'.exists
            /\ HasTag(edsFile'.content, EDS_HEADER)
            /\ inflate(fromBase64(Slice(edsFile'.content, Len(EDS_HEADER))))
                 = [ok |-> TRUE, text |-> JSONstringify(packedDoc)]
            /\ edsToJson(edsFile'.content) = [ok |-> TRUE, doc |-> packedDoc]]_vars

\* the file jsonToEds wrote for a Kring with a Contactdoos was read back as
\* that document
C7_Witness ==
    /\ packedDoc = PackedNested
    /\ edsFile.exists
    /\ edsFile.content = jsonToEds(packedDoc)
    /\ decoded.called
    /\ decoded.read = edsFile.content
    /\ decoded.ok
    /\ decoded.doc = PackedNested
    /\ "elements" \in DOMAIN yamlOut
    /\ Len(yamlOut.elements) = 1

-----------------------------------------------------------------------------
(* C8: a file with an unknown tag *)

\* the message of the Error edsToJson throws for an unknown tag
UnknownFormat == "Unknown EDS format - expected header EDS0040000 or TXT0040000"

\* the content has neither tag in front
NoKnownTag(content) == ~HasTag(content, EDS_HEADER) /\ ~HasTag(content, TXT_HEADER)

\* C8 as stated: decoding input whose leading 10 characters are neither
\* EDS0040000 nor TXT0040000 fails with an error.
C8_AsStated ==
    (decoded.called /\ NoKnownTag(decoded.read)) => ~decoded.ok

\* C8: decoding input that, with the white space around it trimmed off, has
\* neither EDS0040000 nor TXT0040000 in front fails with the error of the
\* unknown format; and eds2yaml on a file edsToJson fails on builds no
\* document and writes no output and no image file.
C8_UnknownTag ==
    /\ []((decoded.called /\ NoKnownTag(Trim(decoded.read)))
             => ~decoded.ok /\ decoded.error = UnknownFormat)
    /\ [][(edsFile.exists /\ ~edsToJson(edsFile.content).ok)
             => /\ yamlOut' = yamlOut
                /\ idToRef' = idToRef
                /\ assets' = assets
                /\ decoded' # decoded => ~decoded'.ok /\ decoded'.read = edsFile.content]_vars

\* eds2yaml has been run on a file with the tag JSN0040000 before the plain
\* JSON of a document: the error is thrown, no document is built, no file
\* written
C8_Witness ==
    /\ decoded.called
    /\ decoded.read = edsFile.content
    /\ HasTag(decoded.read, <<"J", "S", "N", "0", "0", "4", "0", "0", "0", "0">>)
    /\ JSONparse(Slice(decoded.read, Len(TXT_HEADER))).ok
    /\ ~decoded.ok
    /\ decoded.error = UnknownFormat
    /\ yamlOut = NoYaml
    /\ assets = {}

-----------------------------------------------------------------------------
(* C11: the precedence of nr *)

\* the node at p gives an nr, in either form: { type, nr } or { T: { nr } }
GivesNr(p) == HasNrKey(p) \/ HasNrAttribute(p)

\* the nr the node at p gives, as text
GivenNr(p) ==
    IF HasNrKey(p) THEN String(NodeAt(yamlDoc.elements, p).nr)
    ELSE String(PropsOf(NodeAt(yamlDoc.elements, p)).nr)

\* the sequence number of the node at p among the children of its parent that
\* are handed one
SequenceNr(p) ==
    Cardinality({q \in ChildPaths(Parent(p)) : q[Len(q)] < p[Len(p)] /\ ~HasNrKey(q)}) + 1

\* C11: the packed nr of every node, in whichever form it is written, is the
\* nr the node gives, as text, when it gives one; otherwise the automatic
\* sequence number when the node is a direct child of a Kring; otherwise the
\* empty string.  An nr a node gives is never replaced by an automatic number.
C11_NrPrecedence ==
    Compiled =>
        \A p \in InputPaths :
            ItemAt(p).props.nr =
                IF GivesNr(p) THEN S(GivenNr(p))
                ELSE IF IsKringChild(p) THEN S(ToString(SequenceNr(p)))
                ELSE S("")

-----------------------------------------------------------------------------
(* C13: a type the defaults table does not have *)

\* heads of a type that is not in the table, in the three forms a node is
\* written in, beside heads of the known types
GapLeafHeads ==
    { S("Zonnepaneel"), S("Contactdoos"),
      [type |-> "Zonnepaneel"],
      [type |-> "Zonnepaneel", props |-> [vermogen |-> S("400")]],
      [Zonnepaneel |-> [vermogen |-> S("400")]] }

GapInnerHeads ==
    { [type |-> "Kring"], [type |-> "Zonnepaneel"],
      [Zonnepaneel |-> [vermogen |-> S("400")]] }

InitGap ==
    /\ yamlDoc \in { [elements |-> f] : f \in Forests(GapLeafHeads, GapInnerHeads) }
    /\ assets = {}
    /\ InitRest

SpecGap == InitGap /\ [][Next]_vars

\* a node as it is written: its type name (the token, the type key, or the one
\* key of a type-keyed mapping), the attributes it gives, its children
WrittenType(node) ==
    IF IsString(node) THEN node.v
    ELSE IF "type" \in DOMAIN node THEN node.type
    ELSE CHOOSE k \in DOMAIN node : TRUE

WrittenProps(node) ==
    IF IsString(node) THEN EmptyObj
    ELSE IF "type" \in DOMAIN node THEN PropsOf(node)
    ELSE LET value == node[WrittenType(node)]
         IN  Without(value, {"children", "props"}) @@ PropsOf(value)

WrittenChildren(node) ==
    IF IsString(node) THEN <<>>
    ELSE IF "type" \in DOMAIN node THEN ChildrenOf(node)
    ELSE ChildrenOf(node[WrittenType(node)])

\* the nodes of a forest as they are written, in depth-first preorder
RECURSIVE WrittenList(_)
WrittenList(nodes) ==
    IF nodes = <<>> THEN <<>>
    ELSE << [type |-> WrittenType(nodes[1]), props |-> WrittenProps(nodes[1])] >>
         \o WrittenList(WrittenChildren(nodes[1]))
         \o WrittenList(Tail(nodes))

\* C13: a node whose type name is not in the defaults table, written as a bare
\* token, as { type, ... } or as a type-keyed mapping, is packed as an element
\* whose type is that name and whose other attributes, nr aside, are exactly
\* the ones the node gives; every node of the tree is packed.
C13_SchemaGap ==
    Compiled =>
        LET written == WrittenList(yamlDoc.elements)
        IN  /\ Len(edsData.data) = Len(written)
            /\ \A i \in DOMAIN written :
                  (written[i].type \notin DOMAIN SCHEMA /\ i \in DOMAIN edsData.data) =>
                      /\ edsData.data[i].props.type = S(written[i].type)
                      /\ Without(edsData.data[i].props, {"type", "nr"})
                           = Without(written[i].props, {"nr"})

-----------------------------------------------------------------------------
(* C14: a packed document that did not come from compileTree: any ids, the *)
(* elements in any array order                                              *)

\* the longest packed array
MaxItems == 3

\* the id values of the packed documents
IdValues == {1, 2, 3, 5}

\* the parent links of n elements, by position (0 for a root), that make a forest
ParentLinks(n) ==
    { f \in [1..n -> 0..n] :
        \A i \in 1..n :
            LET up[k \in 0..n] == IF k = 0 THEN i ELSE IF up[k - 1] = 0 THEN 0 ELSE f[up[k - 1]]
            IN  up[n] = 0 }

\* the nesting depth of the element at position i
DepthOf(f, i) ==
    LET up[k \in 0..Len(f)] == IF k = 0 THEN i ELSE IF up[k - 1] = 0 THEN 0 ELSE f[up[k - 1]]
    IN  Cardinality({k \in 1..Len(f) : up[k] # 0})

\* the packed document of n elements with the ids, parent links and types
\* given by position; every element carries its position as its adres
PackedOf(ids, f, types) ==
    LET data == [i \in DOMAIN ids |->
                   [ id |-> ids[i],
                     parent |-> IF f[i] = 0 THEN 0 ELSE ids[f[i]],
                     indent |-> DepthOf(f, i),
                     collapsed |-> FALSE,
                     props |-> Put(Put(applyDefaults(types[i], [adres |-> N(i)]),
                                       "type", S(types[i])), "nr", S("")) ]]
    IN  [ length |-> Len(data),
          data   |-> data,
          active |-> [i \in DOMAIN data |-> TRUE],
          id     |-> ids,
          curid  |-> 6,
          sitplanjson |-> [ numPages |-> 1, activePage |-> 1,
                            defaults |-> [fontsize |-> 11, scale |-> 70, rotate |-> 0],
                            elements |-> <<>> ] ]

\* the packed documents of up to n elements
PackedDocs(most) ==
    UNION { { PackedOf(ids, f, types) :
                ids \in { s \in [1..n -> IdValues] : \A i, j \in 1..n : s[i] = s[j] => i = j },
                f \in ParentLinks(n),
                types \in [1..n -> {"Kring", "Contactdoos"}] } : n \in 1..most }

InitPacked ==
    /\ yamlDoc = [elements |-> <<>>]
    /\ edsData \in PackedDocs(MaxItems)
    /\ prevRun = [eds |-> NoEds, refToId |-> EmptyObj]
    /\ walkState = FreshWalkState
    /\ rootIndex = 0
    /\ runs = 0
    /\ yamlOut = NoYaml
    /\ idToRef = <<>>
    /\ warnings = <<>>
    /\ assets = {}
    /\ packedDoc = NoDoc
    /\ edsFile = NoFile
    /\ decoded = NotCalled
    /\ edsData2 = NoEds
    /\ yamlOut2 = NoYaml

NextPacked == EdsToYaml

SpecPacked == InitPacked /\ [][NextPacked]_vars

\* the positions of the packed array whose parent is pid, in array order
PositionsUnder(pid) ==
    SelectSeq([i \in DOMAIN edsData.data |-> i], LAMBDA i : edsData.data[i].parent = pid)

\* the array positions of the nodes of a list of built nodes
PositionsOf(nodes) == [k \in DOMAIN nodes |-> PropsOf(normalizeNode(nodes[k])).adres.v]

\* the packed array with its id values renamed by pi, parent links included
Renamed(data, pi) ==
    [i \in DOMAIN data |->
        [data[i] EXCEPT !.id = pi[data[i].id],
                        !.parent = IF data[i].parent = 0 THEN 0 ELSE pi[data[i].parent]]]

\* the ways of renaming the id values
Renamings == { pi \in [IdValues -> IdValues] : \A a, b \in IdValues : pi[a] = pi[b] => a = b }

\* C14: the roots of the built tree are the elements of parent 0 in the order
\* of the packed array, the children of every node are the elements whose
\* parent is its id in the order of the packed array, whatever the id values
\* are; and renaming the id values, parent links with them, leaves the built
\* tree as it is.
C14_ArrayOrder ==
    Built =>
        /\ PositionsOf(yamlOut.elements) = PositionsUnder(0)
        /\ Cardinality(PathsOf(yamlOut.elements)) = Len(edsData.data)
        /\ \A p \in PathsOf(yamlOut.elements) :
              LET node == NodeAt(yamlOut.elements, p)
              IN  PositionsOf(ChildrenOf(node)) = PositionsUnder(edsData.data[PropsOf(node).adres.v].id)
        /\ \A pi \in Renamings : buildTree(Renamed(edsData.data, pi)) = yamlOut.elements

\* a tree has been built from a packed array in which a parent comes after
\* its two children and the earlier child has the greater id
C14_Witness ==
    /\ Built
    /\ Len(edsData.data) = 3
    /\ edsData.data[1].parent = edsData.data[3].id
    /\ edsData.data[2].parent = edsData.data[3].id
    /\ edsData.data[1].id > edsData.data[2].id
    /\ PositionsOf(yamlOut.elements) = <<3>>
    /\ PositionsOf(ChildrenOf(normalizeNode(yamlOut.elements[1]))) = <<1, 2>>

-----------------------------------------------------------------------------
(* C15: the labels buildTree derives against the ones compileTree gave *)

\* the display label of the built node at p: its _comment, "" when it has none
LabelAt(p) ==
    LET props == PropsOf(NodeAt(yamlOut.elements, p))
    IN  IF "_comment" \in DOMAIN props THEN String(props._comment) ELSE ""

\* the reference labels compileTree registered for the element at p
RefsOf(p) == { ref \in DOMAIN walkState.refToId : walkState.refToId[ref] = ItemAt(p).id }

\* C15: for every tree, each Kring has in the built tree the display label
\* "#<name>" of the name compileTree gave it, and every other element that
\* compileTree registered under a reference label "<L>.<nr>" has the display
\* label "#<L>.<nr>".
C15_SameLabels ==
    Built =>
        \A p \in InputPaths :
            IF IsKringAt(p) THEN LabelAt(p) = "#" \o KringNameAt(p)
            ELSE \A ref \in RefsOf(p) : LabelAt(p) = "#" \o ref

-----------------------------------------------------------------------------
(* C16: where a reference label is registered *)

\* the Krings the node at p lies under: its proper ancestors that are Krings
KringsAbove(p) == { q \in InputPaths : Len(q) < Len(p) /\ SubSeq(p, 1, Len(q)) = q /\ IsKringAt(q) }

\* the labels the element at p may be registered under: none when it has no nr
\* or lies in the subtree of no Kring, otherwise the name of the nearest Kring
\* above it (for a Kring, also its own name) and its nr
ScopedRefs(p) ==
    LET nr    == String(ItemAt(p).props.nr)
        above == KringsAbove(p)
        near  == { q \in above : \A r \in above : Len(r) <= Len(q) }
        names == { KringNameAt(q) : q \in near \cup (IF IsKringAt(p) THEN {p} ELSE {}) }
    IN  IF nr = "" THEN {} ELSE { name \o "." \o nr : name \in names }

\* C16: compileTree and buildIdToRef register a reference label only for an
\* element with a non-empty nr inside the subtree of a Kring, under the name
\* of the Kring it descends from: an element outside every Kring subtree has
\* no entry, and an element visited after the subtree of a nested Kring has
\* been left is labelled with its own enclosing Kring.
C16_LabelScope ==
    Built =>
        \A p \in InputPaths :
            /\ RefsOf(p) \subseteq ScopedRefs(p)
            /\ ItemAt(p).id \in DOMAIN idToRef => idToRef[ItemAt(p).id] \in ScopedRefs(p)

-----------------------------------------------------------------------------
(* C17: when a node is written as the bare type token *)

\* the node at a path as it is written
RECURSIVE WrittenAt(_, _)
WrittenAt(nodes, p) ==
    IF Len(p) = 1 THEN nodes[p[1]]
    ELSE WrittenAt(ChildrenOf(normalizeNode(nodes[p[1]])), Tail(p))

\* the packed element at p has no attribute left after stripping, and no child
NothingToWrite(p) ==
    /\ stripDefaults(TypeOfProps(ItemAt(p).props), ItemAt(p).props) = EmptyObj
    /\ ChildPaths(p) = {}

\* C17: buildTree emits a node as the bare type token exactly when its
\* stripped attribute set is empty and it has no children, a Kring and a
\* numbered direct child of a Kring included; every other node is emitted as
\* the type-keyed mapping.
C17_BareToken ==
    Built =>
        \A p \in InputPaths :
            LET node == WrittenAt(yamlOut.elements, p)
                type == TypeOfProps(ItemAt(p).props)
            IN  IF NothingToWrite(p) THEN node = S(type)
                ELSE ~IsString(node) /\ DOMAIN node = {type}

-----------------------------------------------------------------------------
(* C18: what stripDefaults leaves out.  Packed documents of one element    *)
(* with attributes of every kind: equal to the default as the same value   *)
(* or as another type of the same text, different from it, without a       *)
(* default, and the ones that are always left out.                          *)

\* the values an attribute of a packed element is given
AttributeValues ==
    [ naam              |-> {S("Keuken")},
      autonr            |-> {S("auto"), S("manueel")},
      autoKringNaam     |-> {S("auto")},
      aantal            |-> {S("1"), N(1), S("2")},
      is_halfwaterdicht |-> {B(FALSE), S("false"), B(TRUE)},
      amperage          |-> {S("16"), S("20")},
      adres             |-> {S("hal")} ]

\* the attribute mappings over those values: any of the keys, any of its values
RECURSIVE MapsOver(_)
MapsOver(keys) ==
    IF keys = {} THEN {EmptyObj}
    ELSE LET k    == CHOOSE k \in keys : TRUE
             rest == MapsOver(keys \ {k})
         IN  rest \cup { Put(f, k, v) : f \in rest, v \in AttributeValues[k] }

\* the packed document of the one element of that type with those attributes
OneElement(type, nr, attrs) ==
    [ length |-> 1,
      data   |-> << [ id |-> 1, parent |-> 0, indent |-> 0, collapsed |-> FALSE,
                      props |-> Put(Put(attrs, "type", S(type)), "nr", S(nr)) ] >>,
      active |-> <<TRUE>>,
      id     |-> <<1>>,
      curid  |-> 2,
      sitplanjson |-> [ numPages |-> 1, activePage |-> 1,
                        defaults |-> [fontsize |-> 11, scale |-> 70, rotate |-> 0],
                        elements |-> <<>> ] ]

InitStrip ==
    /\ yamlDoc = [elements |-> <<>>]
    /\ edsData \in { OneElement(type, nr, attrs) :
                        type \in {"Kring", "Contactdoos", "Zonnepaneel"},
                        nr \in {"", "3"},
                        attrs \in MapsOver(DOMAIN AttributeValues) }
    /\ prevRun = [eds |-> NoEds, refToId |-> EmptyObj]
    /\ walkState = FreshWalkState
    /\ rootIndex = 0
    /\ runs = 0
    /\ yamlOut = NoYaml
    /\ idToRef = <<>>
    /\ warnings = <<>>
    /\ assets = {}
    /\ packedDoc = NoDoc
    /\ edsFile = NoFile
    /\ decoded = NotCalled
    /\ edsData2 = NoEds
    /\ yamlOut2 = NoYaml

SpecStrip == InitStrip /\ [][NextPacked]_vars

\* the attributes of a built node, its display label aside
AttributesOf(node) ==
    IF IsString(node) THEN EmptyObj
    ELSE Without(node[CHOOSE k \in DOMAIN node : TRUE], {"_comment", "children"})

\* the keys of props that are left out: type and nr, the naam of a Kring, an
\* autonr or autoKringNaam that is "auto", a value with the text of the default
LeftOut(nodeType, props) ==
    { key \in DOMAIN props :
        \/ key \in {"type", "nr"}
        \/ key = "naam" /\ nodeType = "Kring"
        \/ key \in {"autonr", "autoKringNaam"} /\ props[key] = S("auto")
        \/ nodeType \in DOMAIN SCHEMA /\ key \in DOMAIN SCHEMA[nodeType]
             /\ String(props[key]) = String(SCHEMA[nodeType][key]) }

\* C18: for every element type and attribute mapping, the attributes eds2yaml
\* writes, which are the output of stripDefaults, never hold the keys type or
\* nr, never naam for a Kring, never an autonr or autoKringNaam that is
\* "auto", never a key whose value has the text of the schema default of the
\* key (the number 1 and the text "1" alike); every other key of the input is
\* kept with its value.
C18_StripDefaults ==
    Built =>
        \A i \in DOMAIN edsData.data :
            LET props    == edsData.data[i].props
                nodeType == String(props.type)
                out      == AttributesOf(yamlOut.elements[i])
            IN  /\ out = stripDefaults(nodeType, props)
                /\ DOMAIN out \cap {"type", "nr"} = {}
                /\ nodeType = "Kring" => "naam" \notin DOMAIN out
                /\ \A key \in DOMAIN out \cap {"autonr", "autoKringNaam"} : out[key] # S("auto")
                /\ \A key \in DOMAIN out \cap DOMAIN getDefaults(nodeType) :
                      String(out[key]) # String(getDefaults(nodeType)[key])
                /\ DOMAIN out = DOMAIN props \ LeftOut(nodeType, props)
                /\ \A key \in DOMAIN out : out[key] = props[key]

\* a Contactdoos whose aantal is the number 1, the default being the text "1",
\* and whose adres has no default, has been written with the adres alone
C18_Witness ==
    /\ Built
    /\ edsData.data[1].props.type = S("Contactdoos")
    /\ edsData.data[1].props.nr = S("3")
    /\ "aantal" \in DOMAIN edsData.data[1].props
    /\ edsData.data[1].props.aantal = N(1)
    /\ "autonr" \in DOMAIN edsData.data[1].props
    /\ edsData.data[1].props.autonr = S("auto")
    /\ yamlOut.elements = << [Contactdoos |-> [adres |-> S("hal")]] >>

-----------------------------------------------------------------------------
(* C19: the attributes of a packed element *)

-----------------------------------------------------------------------------
(* C20: the free texts of the document properties *)

\* the most pieces a text of the documents below is made of
MaxPieces == 3

\* the pieces: a letter, a blank, a line feed, the marker and its two halves
TextPieces == { <<"a">>, <<" ">>, <<"\n">>, BreakMarker, <<"<", "b">>, <<"r", ">">> }

\* the texts of up to n pieces
RECURSIVE TextsOf(_)
TextsOf(n) ==
    IF n = 0 THEN {<<>>}
    ELSE LET shorter == TextsOf(n - 1)
         IN  shorter \cup { t \o piece : t \in shorter, piece \in TextPieces }

PropertyKeys == {"owner", "installer", "control", "info"}

\* documents with one free text, any of the four, or with the default info
\* beside an owner
InitProps ==
    /\ yamlDoc \in { [elements |-> <<S("Kring")>>, properties |-> [k \in {key} |-> text]] :
                        key \in PropertyKeys, text \in TextsOf(MaxPieces) }
                   \cup { [elements |-> <<S("Kring")>>,
                           properties |-> [owner |-> text, info |-> DefaultInfo]] :
                             text \in TextsOf(1) }
                   \cup { [elements |-> <<S("Kring")>>] }
    /\ assets = {}
    /\ InitRest

SpecProps == InitProps /\ [][Next]_vars

\* pat occurs in text
Occurs(pat, text) ==
    \E i \in 1..Len(text) : i + Len(pat) - 1 <= Len(text) /\ SubSeq(text, i, i + Len(pat) - 1) = pat

\* the text the document gives for a property, <<>> when it gives none
Given(key) ==
    IF "properties" \in DOMAIN yamlDoc /\ key \in DOMAIN yamlDoc.properties
    THEN yamlDoc.properties[key] ELSE <<>>

\* the text of the built document for a property, <<>> when it has none
Recovered(key) ==
    IF "properties" \in DOMAIN yamlOut /\ key \in DOMAIN yamlOut.properties
    THEN yamlOut.properties[key] ELSE <<>>

\* a non-empty text without white space at either end and without the marker
Plain(text) ==
    /\ text # <<>>
    /\ text[1] \notin WhiteSpace
    /\ text[Len(text)] \notin WhiteSpace
    /\ ~Occurs(BreakMarker, text)

\* the lines of a text: the characters between its line feeds, the line feeds
\* counted by their number
LineFeeds(text) == Cardinality({i \in DOMAIN text : text[i] = "\n"})

\* C20: on export the packed owner, installer, control and info hold no line
\* feed: each line feed of the trimmed text has become a marker "<br>"; on
\* import the text holds no marker.  For a non-empty text without white space
\* at its ends and without a marker of its own, export followed by import
\* gives the text back; an info text that is the default is left out on
\* import and is the packed default on export.
C20_LineBreaks ==
    /\ Compiled =>
          \A key \in PropertyKeys :
              /\ ~Occurs(<<"\n">>, edsData.properties[key])
              /\ Len(edsData.properties[key])
                   = LET text == IF Given(key) = <<>> /\ key = "info" THEN DefaultInfo
                                 ELSE Trim(Given(key))
                     IN  Len(text) + 3 * LineFeeds(text)
              /\ (key = "info" /\ Given(key) \in {<<>>, DefaultInfo})
                    => edsData.properties[key] = DefaultInfo
    /\ Built =>
          \A key \in PropertyKeys :
              /\ ~Occurs(BreakMarker, Recovered(key))
              /\ (Plain(Given(key)) /\ ~(key = "info" /\ Given(key) = DefaultInfo))
                    => Recovered(key) = Given(key)
              /\ (key = "info" /\ Given(key) = DefaultInfo) => Recovered(key) = <<>>

\* an owner of two lines, the second starting like a marker, has been packed
\* with a marker between the lines and built back as it was given
C20_Witness ==
    /\ Built
    /\ Given("owner") = <<"a", "\n", "<", "b">>
    /\ edsData.properties.owner = <<"a", "<", "b", "r", ">", "<", "b">>
    /\ Recovered("owner") = <<"a", "\n", "<", "b">>

-----------------------------------------------------------------------------
(* Repeated conversion: yaml2eds on the file eds2yaml wrote, and eds2yaml *)
(* on its result                                                          *)

\* a node of the elements as YAML.parse reads it from the text serializeYaml
\* and addYamlComments wrote: the _comment line has become a comment, and a
\* mapping left without keys reads as null, which normalizeNode takes for {}
RECURSIVE ReadNode(_)
ReadNode(node) ==
    IF IsString(node) THEN node
    ELSE LET nodeType == CHOOSE key \in DOMAIN node : TRUE
             result   == Without(node[nodeType], {"_comment"})
         IN  [key \in {nodeType} |->
                 IF "children" \in DOMAIN result
                 THEN [children |-> [i \in DOMAIN result.children |-> ReadNode(result.children[i])]]
                      @@ result
                 ELSE result]

\* text without the white space at its end
RECURSIVE TrimEnd(_)
TrimEnd(text) ==
    IF text # <<>> /\ text[Len(text)] \in WhiteSpace
    THEN TrimEnd(SubSeq(text, 1, Len(text) - 1))
    ELSE text

\* a property as YAML.parse reads it from the text serializeYaml wrote: a
\* value of one line is a plain scalar, a value of several lines a literal
\* block, which ends with one line feed
ReadText(value) ==
    IF \E i \in DOMAIN value : value[i] = "\n"
    THEN TrimEnd(value) \o <<"\n">>
    ELSE Trim(value)

\* the document yaml2eds reads from the file eds2yaml wrote for data
ReadYaml(data) ==
    [elements |-> [i \in DOMAIN data.elements |-> ReadNode(data.elements[i])]]
    @@ (IF "properties" \in DOMAIN data
        THEN [properties |-> [key \in DOMAIN data.properties |-> ReadText(data.properties[key])]]
        ELSE EmptyObj)
    @@ (IF "sitplan" \in DOMAIN data THEN [sitplan |-> data.sitplan] ELSE EmptyObj)

\* yaml2eds on the .yaml file eds2yaml wrote, in a process of its own
YamlOutToEds ==
    /\ Built
    /\ runs < MaxRuns
    /\ LET doc == ReadYaml(yamlOut)
           st  == walkRoots(FreshWalkState, doc.elements, 1)
           sj  == buildSitplanJson(doc, st.refToId, assets)
       IN  /\ edsData2' = EdsDataOf(st, doc, sj.json)
           /\ walkState' = st
           /\ warnings' = warnings \o sj.warnings
    /\ runs' = runs + 1
    /\ UNCHANGED <<yamlDoc, edsData, prevRun, rootIndex, yamlOut, idToRef, assets,
                   packedDoc, edsFile, decoded, yamlOut2>>

\* eds2yaml on the .eds file that run wrote
EdsOutToYaml ==
    /\ "data" \in DOMAIN edsData2
    /\ LET r == edsToYamlData(edsData2)
       IN  /\ yamlOut2' = r.doc
           /\ idToRef' = r.idToRef
           /\ assets' = assets \cup r.written
    /\ UNCHANGED <<yamlDoc, edsData, prevRun, walkState, rootIndex, runs, yamlOut, warnings,
                   packedDoc, edsFile, decoded, edsData2>>

\* layers that refer to an element by the label of its position and by the
\* label of its explicit number, and image layers of two formats
RepeatLayers ==
    { [ref |-> "A.1", pos |-> <<1000, 2000>>],
      [ref |-> "A.5", pos |-> <<3014, 4000>>],
      [image |-> "plan.png", pos |-> <<0, 0>>, size |-> <<10000, 5000>>],
      [image |-> "logo.gif", pos |-> <<0, 0>>, size |-> <<800, 600>>] }

RepeatSitplans ==
    {EmptyObj} \cup { [sitplan |-> [layers |-> <<l>>]] : l \in RepeatLayers }

RepeatProperties ==
    { EmptyObj, [properties |-> [owner |-> <<"a", "\n", "b">>]] }

\* documents with Krings, sockets with and without a number of their own, a
\* layer and a text of two lines
InitRepeat ==
    /\ yamlDoc \in { [elements |-> f] @@ sp @@ pr :
                        f \in Forests({S("Contactdoos"), [type |-> "Contactdoos", nr |-> S("5")]},
                                      {[type |-> "Kring"]}),
                        sp \in RepeatSitplans, pr \in RepeatProperties }
    /\ assets = {"plan.png", "logo.gif"}
    /\ InitRest

NextRepeat == YamlToEds \/ EdsToYaml \/ YamlOutToEds \/ EdsOutToYaml

SpecRepeat == InitRepeat /\ [][NextRepeat]_vars

\* the second round has built its document
BuiltAgain == "elements" \in DOMAIN yamlOut2

\* C12: the document eds2yaml builds from yaml2eds of the file it wrote before
\* is the document it wrote before (the metadata, with its timestamp, is not
\* part of either)
C12_RepeatStable == BuiltAgain => yamlOut2 = yamlOut

-----------------------------------------------------------------------------
(* C21: an image layer whose file is missing, yaml2eds *)

\* image layers with and without a size, one of them carrying a label no
\* document holds, and layers that refer to an element
AssetLayers ==
    { [image |-> "plan.png", pos |-> <<0, 0>>, size |-> <<10000, 5000>>],
      [image |-> "plan.png", pos |-> <<300, 400>>],
      [image |-> "foto.jpg", ref |-> "Z.9", pos |-> <<1000, 2000>>, size |-> <<800, 600>>],
      [ref |-> "A.1", pos |-> <<1000, 2000>>],
      [ref |-> "Z.9", pos |-> <<500, 500>>] }

RECURSIVE AssetLayerLists(_)
AssetLayerLists(n) ==
    IF n = 0 THEN {<<>>}
    ELSE AssetLayerLists(n - 1)
         \cup { Append(ls, l) : ls \in { x \in AssetLayerLists(n - 1) : Len(x) = n - 1 },
                                 l \in AssetLayers }

\* the image files the layers name
AssetFiles == {"plan.png", "foto.jpg"}

\* documents of a few elements with up to MaxLayers layers, beside any of the
\* image files
InitAsset ==
    /\ yamlDoc \in { [elements |-> f, sitplan |-> [layers |-> ls]] :
                        f \in Forests({S("Contactdoos")}, {[type |-> "Kring"]}),
                        ls \in AssetLayerLists(MaxLayers) }
    /\ assets \in SUBSET AssetFiles
    /\ InitRest

SpecAsset == InitAsset /\ [][Next]_vars

\* the positions of the image layers whose file is not there
MissingLayers ==
    { i \in DOMAIN InputLayers : IsImageLayer(InputLayers[i]) /\ InputLayers[i].image \notin assets }

\* the warning about an image file
ImageWarning(image) == "Warning: Image file '" \o image \o "' not found"

\* the packed sitplan the document gives beside all the image files
WithAllFiles == buildSitplanJson(yamlDoc, walkState.refToId, assets \cup AssetFiles).json

\* C21: an image layer whose file does not exist still gives an entry of the
\* packed sitplan, with a null element id, the pos and the size of the layer
\* (200 x 200 when it gives none) and an empty svg, and each run warns about
\* it once; whatever label an image layer carries is not looked up; the
\* packed sitplan is the one the document gives beside all the files, but for
\* the svg of those entries, and every element of the tree is packed.
C21_MissingAsset ==
    Compiled =>
      /\ \A i \in DOMAIN InputLayers : IsImageLayer(InputLayers[i]) => i \in EmittedLayers
      /\ \A i \in MissingLayers :
            LET layer == InputLayers[i]
            IN  /\ EntryOf(i).electroItemId = Null
                /\ EntryOf(i).posx = layer.pos[1]
                /\ EntryOf(i).posy = layer.pos[2]
                /\ EntryOf(i).sizex = IF "size" \in DOMAIN layer THEN layer.size[1] ELSE 20000
                /\ EntryOf(i).sizey = IF "size" \in DOMAIN layer THEN layer.size[2] ELSE 20000
                /\ EntryOf(i).svg = ""
      /\ Len(SelectSeq(warnings, LAMBDA w : \E i \in MissingLayers : w = ImageWarning(InputLayers[i].image)))
           = runs * Cardinality(MissingLayers)
      /\ Len(edsData.sitplanjson.elements) = Len(WithAllFiles.elements)
      /\ \A k \in DOMAIN edsData.sitplanjson.elements :
            IF \E i \in MissingLayers : Cardinality({j \in EmittedLayers : j <= i}) = k
            THEN [edsData.sitplanjson.elements[k] EXCEPT !.svg = WithAllFiles.elements[k].svg]
                   = WithAllFiles.elements[k]
            ELSE edsData.sitplanjson.elements[k] = WithAllFiles.elements[k]
      /\ edsData.length = Cardinality(InputPaths)

\* beside plan.png alone, the layer of foto.jpg with the label Z.9 is packed
\* without its picture, with a warning about the file and none about the
\* label, before the layer of the element A.1
C21_Witness ==
    /\ Compiled
    /\ assets = {"plan.png"}
    /\ InputLayers = << [image |-> "foto.jpg", ref |-> "Z.9", pos |-> <<1000, 2000>>, size |-> <<800, 600>>],
                        [ref |-> "A.1", pos |-> <<1000, 2000>>] >>
    /\ "A.1" \in DOMAIN walkState.refToId
    /\ Len(edsData.sitplanjson.elements) = 2
    /\ edsData.sitplanjson.elements[1].svg = ""
    /\ edsData.sitplanjson.elements[1].electroItemId = Null
    /\ edsData.sitplanjson.elements[2].electroItemId = walkState.refToId["A.1"]
    /\ warnings = <<ImageWarning("foto.jpg")>>

-----------------------------------------------------------------------------
(* C22: a label of buildIdToRef, looked up in the label map of compileTree *)

\* the ids of the packed elements buildIdToRef gives a label
LabelledIds == DOMAIN idToRef

\* C22: for every packed element that buildIdToRef gives a label, the label
\* map compileTree built for the document holds that label and gives the id
\* of that element for it, and no two elements have the same label.
C22_RefRoundTrip ==
    Built =>
      /\ \A i \in LabelledIds :
            /\ idToRef[i] \in DOMAIN walkState.refToId
            /\ walkState.refToId[idToRef[i]] = i
      /\ \A i, j \in LabelledIds : idToRef[i] = idToRef[j] => i = j

-----------------------------------------------------------------------------
(* C23: the bookkeeping of the packed document *)

\* the ids of the packed elements
AssignedIds == { edsData.data[k].id : k \in DOMAIN edsData.data }

\* C23: in the document compileTree returns, length is the number of
\* elements of data, active and id are lists of that length, id[k] is the id
\* of data[k], every entry of active is true, and curid is the largest id
\* plus 1, 1 when there is no element.
C23_Bookkeeping ==
    Compiled =>
      /\ edsData.length = Len(edsData.data)
      /\ Len(edsData.active) = edsData.length
      /\ Len(edsData.id) = edsData.length
      /\ \A k \in DOMAIN edsData.data : edsData.id[k] = edsData.data[k].id
      /\ \A k \in DOMAIN edsData.active : edsData.active[k] = TRUE
      /\ edsData.curid = IF AssignedIds = {} THEN 1
                         ELSE (CHOOSE i \in AssignedIds : \A j \in AssignedIds : j <= i) + 1

\* a Kring with two sockets is packed as three elements with the ids 1, 2, 3
\* and curid 4
C23_Witness ==
    /\ Compiled
    /\ yamlDoc.elements = <<[type |-> "Kring", children |-> <<S("Contactdoos"), S("Contactdoos")>>]>>
    /\ edsData.length = 3
    /\ edsData.id = <<1, 2, 3>>
    /\ edsData.active = <<TRUE, TRUE, TRUE>>
    /\ edsData.curid = 4

-----------------------------------------------------------------------------
(* C24: buildTree neither loses nor repeats an element *)

\* the ids of the packed array are unique, and every parent is 0 or the id of
\* an earlier element
WellLinked(data) ==
    /\ \A i, j \in DOMAIN data : data[i].id = data[j].id => i = j
    /\ \A i \in DOMAIN data :
          data[i].parent = 0 \/ \E j \in 1..(i - 1) : data[j].id = data[i].parent

\* the array position of the element the built node at p stands for
PositionAt(p) == PropsOf(NodeAt(yamlOut.elements, p)).adres.v

\* C24: for a packed array with unique ids in which every parent is 0 or the
\* id of an earlier element, the built tree has exactly one node for every
\* packed element, a root when its parent is 0 and otherwise a child of the
\* node of the element whose id is its parent, so that the tree has as many
\* nodes as the array has elements; and eds2yaml leaves the packed array as
\* it is.
C24_NoLossNoDuplicate ==
    /\ [](Built /\ WellLinked(edsData.data) =>
            LET paths == PathsOf(yamlOut.elements)
            IN  /\ \A i \in DOMAIN edsData.data :
                      Cardinality({ p \in paths : PositionAt(p) = i }) = 1
                /\ Cardinality(paths) = Len(edsData.data)
                /\ \A p \in paths :
                      LET item == edsData.data[PositionAt(p)]
                      IN  IF Len(p) = 1 THEN item.parent = 0
                          ELSE item.parent = edsData.data[PositionAt(SubSeq(p, 1, Len(p) - 1))].id)
    /\ [][edsData' = edsData]_vars

\* a tree has been built from an array of three elements, the first one, with
\* the greatest id, the parent of the second and the second of the third: one
\* root, one child, one grandchild
C24_Witness ==
    /\ Built
    /\ WellLinked(edsData.data)
    /\ Len(edsData.data) = 3
    /\ edsData.data[1].id = 5
    /\ edsData.data[2].parent = 5
    /\ edsData.data[3].parent = edsData.data[2].id
    /\ PathsOf(yamlOut.elements) = {<<1>>, <<1, 1>>, <<1, 1, 1>>}
    /\ PositionAt(<<1, 1, 1>>) = 3

-----------------------------------------------------------------------------
(* C25: the layers of the built document against the packed sitplan *)

\* the entries of the packed sitplan
PackedEntries == edsData.sitplanjson.elements

\* the positions of the entries without an element and without an svg
EmptyEntries ==
    { i \in DOMAIN PackedEntries : PackedEntries[i].electroItemId = Null /\ PackedEntries[i].svg = "" }

\* the positions of the other entries, in the order of the packed sitplan
KeptEntries ==
    SelectSeq([i \in DOMAIN PackedEntries |-> i], LAMBDA i : i \notin EmptyEntries)

\* C25: the layers of the built document are, one for one and in the order of
\* the packed sitplan, its entries other than those with a null electroItemId
\* and an empty svg: each layer has the rounded pos of its entry, a layer of
\* an element entry carries a ref or an id and no size, a layer of an image
\* entry the size of its entry and neither ref nor id; the document has a
\* sitplan section exactly when there is such a layer.
C25_OverlayOrder ==
    Built =>
      /\ Len(OutputLayers) = Len(KeptEntries)
      /\ \A k \in DOMAIN KeptEntries :
            LET entry == PackedEntries[KeptEntries[k]]
                layer == OutputLayers[k]
            IN  /\ layer.pos = <<Round1(entry.posx), Round1(entry.posy)>>
                /\ IF entry.electroItemId = Null
                   THEN /\ "size" \in DOMAIN layer
                        /\ layer.size = <<entry.sizex, entry.sizey>>
                        /\ DOMAIN layer \cap {"ref", "id"} = {}
                   ELSE /\ "size" \notin DOMAIN layer
                        /\ DOMAIN layer \cap {"ref", "id"} # {}
      /\ ("sitplan" \in DOMAIN yamlOut) = (Len(KeptEntries) > 0)

\* of two packed entries, a picture whose file was not found and an element
\* with a label, the built document has a layer for the second alone
C25_Witness ==
    /\ Built
    /\ Len(PackedEntries) = 2
    /\ EmptyEntries = {1}
    /\ PackedEntries[2].electroItemId # Null
    /\ Len(OutputLayers) = 1
    /\ "ref" \in DOMAIN OutputLayers[1]

=============================================================================
